---- MODULE Spec2Model ----
(***************************************************************************)
(* WaLoRapp: the BLE transport hook useBLE (src/util/useBLE.ts), its       *)
(* chunked message protocol (START / CHUNK / END frames), the inbound      *)
(* reassembly state and the connection lifecycle.                          *)
(*                                                                         *)
(* Strings are sequences of one-character strings, so that trim, split,    *)
(* indexOf, substring, parseInt and template formatting are computed the   *)
(* way the JavaScript code computes them.                                  *)
(***************************************************************************)
EXTENDS Integers, Sequences, FiniteSets, TLC

(***************************************************************************)
(* JavaScript string primitives used by the code.                          *)
(***************************************************************************)

\* Characters String.prototype.trim removes (the ones the model's inputs use).
IsWhitespace(c) == c \in {" ", "\n"}

RECURSIVE TrimStart(_)
TrimStart(s) ==
  IF s = <<>> THEN <<>>
  ELSE IF IsWhitespace(Head(s)) THEN TrimStart(Tail(s)) ELSE s

RECURSIVE TrimEnd(_)
TrimEnd(s) ==
  IF s = <<>> THEN <<>>
  ELSE IF IsWhitespace(s[Len(s)]) THEN TrimEnd(SubSeq(s, 1, Len(s) - 1)) ELSE s

\* String.prototype.trim
Trim(s) == TrimEnd(TrimStart(s))

\* String.prototype.startsWith
StartsWith(s, p) == Len(s) >= Len(p) /\ SubSeq(s, 1, Len(p)) = p

\* String.prototype.indexOf(c, from): 0-based position of the first c at or
\* after position from, -1 when there is none.
RECURSIVE IndexOf(_, _, _)
IndexOf(s, c, from) ==
  IF from >= Len(s) THEN -1
  ELSE IF from < 0 THEN IndexOf(s, c, 0)
  ELSE IF s[from + 1] = c THEN from
  ELSE IndexOf(s, c, from + 1)

Min(a, b) == IF a < b THEN a ELSE b
Max(a, b) == IF a > b THEN a ELSE b

\* String.prototype.substring(a, b): 0-based, end exclusive, clamped to the string.
Substring(s, a, b) ==
  LET lo == Max(0, Min(Min(a, b), Len(s)))
      hi == Max(0, Min(Max(a, b), Len(s)))
  IN SubSeq(s, lo + 1, hi)

\* String.prototype.substring(a)
SubstringFrom(s, a) == Substring(s, a, Len(s))

\* String.prototype.split(":"): every field, empty ones included.
RECURSIVE Split(_)
Split(s) ==
  LET k == IndexOf(s, ":", 0)
  IN IF k = -1 THEN <<s>>
     ELSE <<Substring(s, 0, k)>> \o Split(SubstringFrom(s, k + 1))

\* String.prototype.split(":", limit): the first limit fields, the rest dropped.
SplitLimit(s, limit) ==
  LET all == Split(s) IN SubSeq(all, 1, Min(limit, Len(all)))

Digits == <<"0", "1", "2", "3", "4", "5", "6", "7", "8", "9">>

IsDigit(c) == \E d \in 1..10 : Digits[d] = c

DigitValue(c) == (CHOOSE d \in 1..10 : Digits[d] = c) - 1

\* The result of parseInt on text with no leading number.
NaN == -1000000

RECURSIVE ParseDigits(_, _)
ParseDigits(s, acc) ==
  IF s = <<>> \/ ~IsDigit(Head(s)) THEN acc
  ELSE ParseDigits(Tail(s), acc * 10 + DigitValue(Head(s)))

\* parseInt(text): leading whitespace skipped, an optional sign, then the longest
\* run of decimal digits; NaN when there is no digit.
ParseInt(text) ==
  LET s == TrimStart(text)
      neg == s # <<>> /\ Head(s) = "-"
      body == IF s # <<>> /\ Head(s) \in {"-", "+"} THEN Tail(s) ELSE s
  IN IF body = <<>> \/ ~IsDigit(Head(body)) THEN NaN
     ELSE IF neg THEN 0 - ParseDigits(body, 0) ELSE ParseDigits(body, 0)

\* `${n}` for an integer n.
RECURSIVE ToStr(_)
ToStr(n) ==
  IF n < 0 THEN <<"-">> \o ToStr(0 - n)
  ELSE IF n < 10 THEN <<Digits[n + 1]>>
  ELSE ToStr(n \div 10) \o <<Digits[(n % 10) + 1]>>

\* A slot of the chunks array: null, or a string (the empty string is not null).
Null == <<"null">>
Str(s) == <<"str", s>>

\* Array.prototype.join(""): the slots in index order, a null slot as "".
RECURSIVE Join(_)
Join(chunks) ==
  IF chunks = <<>> THEN <<>>
  ELSE (IF Head(chunks) = Null THEN <<>> ELSE Head(chunks)[2]) \o Join(Tail(chunks))

\* Comparisons with a NaN operand are false.
Lt(a, b) == a # NaN /\ b # NaN /\ a < b
Ge(a, b) == a # NaN /\ b # NaN /\ a >= b

\* a - b in JavaScript numbers: NaN stays NaN.
Minus(a, b) == IF a = NaN \/ b = NaN THEN NaN ELSE a - b

(***************************************************************************)
(* Text literals of the code.                                              *)
(***************************************************************************)
TagS == <<"S", ":">>
TagC == <<"C", ":">>
TagE == <<"E", ":">>
Colon == <<":">>
FilePrefix == <<"F", "I", "L", "E", ":">>
FileReceived == <<"F", "i", "l", "e", " ", "r", "e", "c", "e", "i", "v", "e", "d", ":", "\n">>
ConfigReceived ==
  <<"C", "o", "n", "f", "i", "g", " ", "r", "e", "c", "e", "i", "v", "e", "d", ":", "\n">>
TextType == <<"t", "e", "x", "t">>
FileType == <<"f", "i", "l", "e">>

\* react-native-base64: encode wraps the text, decode unwraps it.
Base64Encode(s) == [b64 |-> s]
Base64Decode(v) == v.b64

(***************************************************************************)
(* Chunk size (useBLE.ts, calculateChunkSize).                             *)
(***************************************************************************)
DEFAULT_CHUNK_SIZE == 20
ProtocolOverhead == 9
AttHeader == 3
MinChunkSize == 5

\* No device: connectedDevice === null. A device with mtu 0 has no MTU.
NoDevice == [id |-> "null", mtu |-> 0]

\* calculateChunkSize without the lower clamp.
calculateChunkSize_Unclamped(device) ==
  IF device = NoDevice \/ device.mtu = 0
  THEN DEFAULT_CHUNK_SIZE - 9
  ELSE device.mtu - AttHeader - ProtocolOverhead

calculateChunkSize(device) ==
  IF device = NoDevice \/ device.mtu = 0
  THEN DEFAULT_CHUNK_SIZE - 9
  ELSE Max(device.mtu - AttHeader - ProtocolOverhead, MinChunkSize)

\* Math.ceil(a / b) for a >= 0, b > 0.
Ceil(a, b) == (a + b - 1) \div b

(***************************************************************************)
(* State of the hook and of its environment.                               *)
(***************************************************************************)
VARIABLES
  connectedDevice,   \* useState<Device | null>
  loraMsg,           \* useState<string>
  configStatus,      \* useState<string>
  chunkedMessages,   \* useState<{[messageId]: ChunkedMessageInfo}>
  renderError,       \* a state updater threw: the hook's render fails
  links,             \* ids of the devices whose BLE link is up
  listeners,         \* <<kind, id>>: registered onDisconnected observers and monitors
  pending,           \* <<kind, id>>: callbacks of a dropped link not yet delivered
  conn,              \* the connectToDevice call in progress
  send,              \* the writeToDevice / writeFileToDevice call in progress
  wire,              \* the values the current send has written, in order
  now,               \* Date.now()
  overlap,           \* a send called while the send above is still in progress
  unhandled,         \* the calls whose promise rejected with no handler attached
  chat,              \* the chat screen: its id, its refs and the messages it shows
  newChat,           \* the new-chat screen: its inputs, isConfiguring, what it reported
  cfg,               \* the configureEndpoint call in progress
  configWire,        \* the values written to the configuration characteristic, in order
  fed,               \* history: the positions of wire a looped-back peer has echoed, in order
  probe,             \* history: a CHUNK frame processed for a transfer that is still open
  detached,          \* history: a disconnect was detected and no device recorded since
  quiet,             \* history: the open transfers that got no CHUNK frame since their START
  orphan,            \* history: the kind of the frame last notified, if it is out of place
  delivered,         \* history: the non-blank messages the hook has set loraMsg to, in order
  arrived            \* history: per transfer of the peer, the number of its frames notified

vars == <<connectedDevice, loraMsg, configStatus, chunkedMessages, renderError,
          links, listeners, pending, conn, send, wire, now, overlap, unhandled,
          chat, newChat, cfg, configWire,
          fed, probe, detached, quiet, orphan, delivered, arrived>>

hookVars == <<connectedDevice, loraMsg, configStatus, chunkedMessages, renderError>>
envVars == <<links, listeners, pending>>
screenVars == <<chat, newChat, cfg, configWire>>
histVars == <<fed, probe, detached, quiet, orphan, delivered, arrived>>

EmptyMap == [x \in {} |-> Null]

Put(f, k, v) == [x \in DOMAIN f \cup {k} |-> IF x = k THEN v ELSE f[x]]
Delete(f, k) == [x \in DOMAIN f \ {k} |-> f[x]]

NoProbe == <<>>

(***************************************************************************)
(* Inbound reassembly (useBLE.ts, parseChunkedMessage).                    *)
(* The result: ret, the value returned; chunked and lora, the state the    *)
(* queued updaters produce from prev and lora; threw, whether an updater   *)
(* threw (new Array of a NaN or negative length).                          *)
(***************************************************************************)
ParseResult(ret, chunked, lora, threw) ==
  [ret |-> ret, chunked |-> chunked, lora |-> lora, threw |-> threw]

\* The START branch keeping the slots of a transfer that is already open.
ParseStart_KeepOpen(message, prev, lora, t) ==
  LET parts == SplitLimit(message, 4)
  IN IF Len(parts) >= 4
     THEN LET messageId == parts[2]
              totalChunks == ParseInt(parts[3])
              messageType == parts[4]
          IN IF totalChunks = NaN \/ totalChunks < 0
             THEN ParseResult(TRUE, prev, lora, TRUE)
             ELSE IF messageId \in DOMAIN prev
             THEN ParseResult(TRUE,
                    [prev EXCEPT ![messageId].messageType = messageType,
                                 ![messageId].timestamp = t],
                    lora, FALSE)
             ELSE ParseResult(TRUE,
                    Put(prev, messageId,
                        [chunks |-> [k \in 1..totalChunks |-> Null],
                         totalChunks |-> totalChunks,
                         receivedChunks |-> 0,
                         messageType |-> messageType,
                         timestamp |-> t]),
                    lora, FALSE)
     ELSE ParseResult(TRUE, prev, lora, FALSE)

\* The START branch.
ParseStart(message, prev, lora, t) ==
  LET parts == SplitLimit(message, 4)
  IN IF Len(parts) >= 4
     THEN LET messageId == parts[2]
              totalChunks == ParseInt(parts[3])
              messageType == parts[4]
          IN IF totalChunks = NaN \/ totalChunks < 0
             THEN ParseResult(TRUE, prev, lora, TRUE)
             ELSE ParseResult(TRUE,
                    Put(prev, messageId,
                        [chunks |-> [k \in 1..totalChunks |-> Null],
                         totalChunks |-> totalChunks,
                         receivedChunks |-> 0,
                         messageType |-> messageType,
                         timestamp |-> t]),
                    lora, FALSE)
     ELSE ParseResult(TRUE, prev, lora, FALSE)

\* The slot a CHUNK frame's index field addresses.
ChunkSlotIndex(chunkIndexReceived) == Minus(chunkIndexReceived, 1)

\* The CHUNK branch without the test for a slot that is already filled.
ParseChunk_Overwrite(message, prev, lora) ==
  LET firstColon == IndexOf(message, ":", 2)
      secondColon == IndexOf(message, ":", firstColon + 1)
  IN IF firstColon # -1 /\ secondColon # -1
     THEN LET messageId == Substring(message, 2, firstColon)
              chunkIndexReceived == ParseInt(Substring(message, firstColon + 1, secondColon))
              chunkIndex == ChunkSlotIndex(chunkIndexReceived)
              chunkData == SubstringFrom(message, secondColon + 1)
          IN IF \/ messageId \notin DOMAIN prev
                \/ Lt(chunkIndex, 0)
                \/ Ge(chunkIndex, prev[messageId].totalChunks)
             THEN ParseResult(TRUE, prev, lora, FALSE)
             ELSE IF chunkIndex # NaN
             THEN ParseResult(TRUE,
                    [prev EXCEPT ![messageId].chunks[chunkIndex + 1] = Str(chunkData),
                                 ![messageId].receivedChunks = @ + 1],
                    lora, FALSE)
             ELSE ParseResult(TRUE, prev, lora, FALSE)
     ELSE ParseResult(TRUE, prev, lora, FALSE)

\* The CHUNK branch opening a one-chunk transfer for an id that has none.
ParseChunk_AutoCreate(message, prev, lora) ==
  LET firstColon == IndexOf(message, ":", 2)
      secondColon == IndexOf(message, ":", firstColon + 1)
  IN IF firstColon # -1 /\ secondColon # -1
     THEN LET messageId == Substring(message, 2, firstColon)
              chunkIndexReceived == ParseInt(Substring(message, firstColon + 1, secondColon))
              chunkIndex == ChunkSlotIndex(chunkIndexReceived)
              chunkData == SubstringFrom(message, secondColon + 1)
          IN IF messageId \notin DOMAIN prev
             THEN ParseResult(TRUE,
                    Put(prev, messageId,
                        [chunks |-> <<Str(chunkData)>>,
                         totalChunks |-> 1,
                         receivedChunks |-> 1,
                         messageType |-> <<"t">>,
                         timestamp |-> 0]),
                    lora, FALSE)
             ELSE IF Lt(chunkIndex, 0) \/ Ge(chunkIndex, prev[messageId].totalChunks)
             THEN ParseResult(TRUE, prev, lora, FALSE)
             ELSE IF chunkIndex # NaN /\ prev[messageId].chunks[chunkIndex + 1] = Null
             THEN ParseResult(TRUE,
                    [prev EXCEPT ![messageId].chunks[chunkIndex + 1] = Str(chunkData),
                                 ![messageId].receivedChunks = @ + 1],
                    lora, FALSE)
             ELSE ParseResult(TRUE, prev, lora, FALSE)
     ELSE ParseResult(TRUE, prev, lora, FALSE)

\* The CHUNK branch completing the transfer when its last slot is filled.
ParseChunk_CompleteOnLast(message, prev, lora) ==
  LET firstColon == IndexOf(message, ":", 2)
      secondColon == IndexOf(message, ":", firstColon + 1)
  IN IF firstColon # -1 /\ secondColon # -1
     THEN LET messageId == Substring(message, 2, firstColon)
              chunkIndexReceived == ParseInt(Substring(message, firstColon + 1, secondColon))
              chunkIndex == ChunkSlotIndex(chunkIndexReceived)
              chunkData == SubstringFrom(message, secondColon + 1)
          IN IF \/ messageId \notin DOMAIN prev
                \/ Lt(chunkIndex, 0)
                \/ Ge(chunkIndex, prev[messageId].totalChunks)
             THEN ParseResult(TRUE, prev, lora, FALSE)
             ELSE IF chunkIndex # NaN /\ prev[messageId].chunks[chunkIndex + 1] = Null
             THEN LET newChunks == [prev[messageId].chunks EXCEPT
                                      ![chunkIndex + 1] = Str(chunkData)]
                  IN IF prev[messageId].receivedChunks + 1 = prev[messageId].totalChunks
                     THEN ParseResult(TRUE, Delete(prev, messageId), Join(newChunks), FALSE)
                     ELSE ParseResult(TRUE,
                            [prev EXCEPT ![messageId].chunks = newChunks,
                                         ![messageId].receivedChunks = @ + 1],
                            lora, FALSE)
             ELSE ParseResult(TRUE, prev, lora, FALSE)
     ELSE ParseResult(TRUE, prev, lora, FALSE)

\* The CHUNK branch.
ParseChunk(message, prev, lora) ==
  LET firstColon == IndexOf(message, ":", 2)
      secondColon == IndexOf(message, ":", firstColon + 1)
  IN IF firstColon # -1 /\ secondColon # -1
     THEN LET messageId == Substring(message, 2, firstColon)
              chunkIndexReceived == ParseInt(Substring(message, firstColon + 1, secondColon))
              chunkIndex == ChunkSlotIndex(chunkIndexReceived)
              chunkData == SubstringFrom(message, secondColon + 1)
          IN IF \/ messageId \notin DOMAIN prev
                \/ Lt(chunkIndex, 0)
                \/ Ge(chunkIndex, prev[messageId].totalChunks)
             THEN ParseResult(TRUE, prev, lora, FALSE)
             ELSE IF chunkIndex # NaN /\ prev[messageId].chunks[chunkIndex + 1] = Null
             THEN ParseResult(TRUE,
                    [prev EXCEPT ![messageId].chunks[chunkIndex + 1] = Str(chunkData),
                                 ![messageId].receivedChunks = @ + 1],
                    lora, FALSE)
             ELSE ParseResult(TRUE, prev, lora, FALSE)
     ELSE ParseResult(TRUE, prev, lora, FALSE)

\* What a completed transfer sets loraMsg to.
CompletedMessage(messageType, reassembledMessage) ==
  IF messageType = <<"f">>
  THEN IF StartsWith(reassembledMessage, FilePrefix)
       THEN reassembledMessage
       ELSE FileReceived \o reassembledMessage
  ELSE IF messageType = <<"c">>
  THEN ConfigReceived \o reassembledMessage
  ELSE reassembledMessage

\* The END branch without the test of the received count.
ParseEnd_NoCountTest(message, prev, lora) ==
  LET parts == Split(message)
  IN IF Len(parts) >= 3
     THEN LET messageId == parts[2]
          IN IF messageId \notin DOMAIN prev
             THEN ParseResult(TRUE, prev, lora, FALSE)
             ELSE ParseResult(TRUE, Delete(prev, messageId),
                    CompletedMessage(prev[messageId].messageType,
                                     Join(prev[messageId].chunks)),
                    FALSE)
     ELSE ParseResult(TRUE, prev, lora, FALSE)

\* The END branch.
ParseEnd(message, prev, lora) ==
  LET parts == Split(message)
  IN IF Len(parts) >= 3
     THEN LET messageId == parts[2]
          IN IF messageId \notin DOMAIN prev
             THEN ParseResult(TRUE, prev, lora, FALSE)
             ELSE IF prev[messageId].receivedChunks = prev[messageId].totalChunks
             THEN ParseResult(TRUE, Delete(prev, messageId),
                    CompletedMessage(prev[messageId].messageType,
                                     Join(prev[messageId].chunks)),
                    FALSE)
             ELSE ParseResult(TRUE, prev, lora, FALSE)
     ELSE ParseResult(TRUE, prev, lora, FALSE)

parseChunkedMessage(messageData, prev, lora, t) ==
  LET message == Trim(messageData)
  IN IF StartsWith(message, TagS) THEN ParseStart(message, prev, lora, t)
     ELSE IF StartsWith(message, TagC) THEN ParseChunk(message, prev, lora)
     ELSE IF StartsWith(message, TagE) THEN ParseEnd(message, prev, lora)
     ELSE ParseResult(FALSE, prev, lora, FALSE)

(***************************************************************************)
(* Errors of react-native-ble-plx and of the hook.                         *)
(***************************************************************************)
BleErr(code, message) == [isBleError |-> TRUE, errorCode |-> code, message |-> message]
PlainErr(message) == [isBleError |-> FALSE, errorCode |-> 0, message |-> message]

ErrDisconnected == BleErr(201, "Device was disconnected")
ErrNotConnected == BleErr(205, "Device is not connected")
ErrCancelled == BleErr(2, "Operation was cancelled")
ErrWriteFailed == BleErr(401, "Characteristic write failed")
ErrUnknownDisconnected == BleErr(0, "Device was disconnected")
NoError == PlainErr("")

\* error.message.includes("disconnected") / includes("cancelled")
IncludesDisconnected(message) == message \in {"Device was disconnected"}
IncludesCancelled(message) == message \in {"Operation was cancelled"}

\* The test on the error code alone.
IsDisconnectionError_CodeOnly(error) == error.isBleError /\ error.errorCode = 201

\* The test writeToDevice and writeFileToDevice make on a caught error.
IsDisconnectionError(error) ==
  error.isBleError /\ (error.errorCode = 201 \/ IncludesDisconnected(error.message))

\* The test the two monitor callbacks make on their error argument.
IsMonitorDisconnection(error) ==
  \/ error.errorCode = 201
  \/ IncludesDisconnected(error.message)
  \/ IncludesCancelled(error.message)

(***************************************************************************)
(* Model inputs.                                                           *)
(***************************************************************************)
Devices == {"d1"}
DefaultMTU == 23
NegotiatedMTUs == {23}
MessageIds == {<<"k", "7", "q">>}

DeviceObj(d, m) == [id |-> d, mtu |-> m]

IdleConn == [pc |-> "idle", dev |-> "null", result |-> "none"]

\* No chat screen is mounted.
NoChatScreen ==
  [open |-> FALSE, id |-> <<>>, loraMsg |-> <<>>, lastProcessedLoraMsg |-> <<>>,
   messages |-> <<>>, autoConfigured |-> Null]

\* No new-chat screen is mounted.
\* No new-chat screen is mounted. seen: the configStatus and isConfiguring of the
\* last render; alert: the alert shown last. History: ackSince, whether a
\* configuration notification has arrived since the last request was sent;
\* fresh, what ackSince was when the alert reported an acknowledgment.
NoNewChatScreen ==
  [open |-> FALSE, deviceName |-> <<>>, macAddress |-> <<>>, isConfiguring |-> FALSE,
   seen |-> <<<<>>, FALSE>>, alert |-> "none", chatId |-> Null,
   ackSince |-> FALSE, fresh |-> TRUE]

\* No configureEndpoint call is in progress. unanswered: the configuration
\* writes issued that the device has not answered.
IdleConfigure ==
  [pc |-> "idle", caller |-> "none", device |-> NoDevice, name |-> <<>>,
   macAddress |-> <<>>, unanswered |-> 0]

\* No frame of a transfer of the peer has been notified.
NoneArrived == [id \in {} |-> 0]
IdleSend ==
  [pc |-> "idle", api |-> "none", device |-> NoDevice, message |-> <<>>,
   messageId |-> <<>>, maxChunkSize |-> 0, totalChunks |-> 0, msgType |-> <<>>,
   i |-> 0, result |-> NoError, outcome |-> "none"]

(***************************************************************************)
(* cleanupConnectionState                                                  *)
(***************************************************************************)
cleanupConnectionState ==
  /\ connectedDevice' = NoDevice
  /\ loraMsg' = <<>>
  /\ configStatus' = <<>>
  /\ chunkedMessages' = EmptyMap
  /\ detached' = TRUE

(***************************************************************************)
(* connectToDevice: the call, then one step per awaited library call.      *)
(***************************************************************************)
ConnectToDevice(d) ==
  /\ ~renderError
  /\ conn.pc = "idle"
  /\ conn' = [pc |-> "connecting", dev |-> d, result |-> "none"]
  /\ UNCHANGED <<hookVars, envVars, send, wire, now, screenVars, overlap, unhandled, histVars>>

\* bleManager.connectToDevice resolves: the link is up; requestMTU is issued.
ConnectResolved ==
  /\ ~renderError
  /\ conn.pc = "connecting"
  /\ links' = links \cup {conn.dev}
  /\ conn' = [conn EXCEPT !.pc = "mtu"]
  /\ UNCHANGED <<hookVars, listeners, pending, send, wire, now, screenVars, overlap, unhandled, histVars>>

\* The catch block of connectToDevice: the promise rejects with "Connection
\* failed: ..."; the device list called connectToDevice without awaiting it or
\* attaching a handler.
ConnectFailed ==
  /\ connectedDevice' = NoDevice
  /\ conn' = [pc |-> "idle", dev |-> conn.dev, result |-> "Connection failed"]
  /\ unhandled' = unhandled \cup {"connectToDevice"}
  /\ UNCHANGED <<loraMsg, configStatus, chunkedMessages, renderError, envVars,
                 send, wire, now, screenVars, overlap, histVars>>

\* bleManager.connectToDevice rejects.
ConnectRejected ==
  /\ ~renderError
  /\ conn.pc = "connecting"
  /\ ConnectFailed

\* requestMTU(517) resolves with the negotiated MTU; discovery is issued.
MtuResolved(m) ==
  /\ ~renderError
  /\ conn.pc = "mtu"
  /\ conn.dev \in links
  /\ connectedDevice' = DeviceObj(conn.dev, m)
  /\ detached' = FALSE
  /\ conn' = [conn EXCEPT !.pc = "discover"]
  /\ UNCHANGED <<loraMsg, configStatus, chunkedMessages, renderError, envVars,
                 send, wire, now, screenVars, overlap, unhandled, fed, probe, quiet, orphan, delivered, arrived>>

\* requestMTU rejects and the connect fails with it.
MtuRejected_Fatal ==
  /\ ~renderError
  /\ conn.pc = "mtu"
  /\ ConnectFailed

\* requestMTU rejects: the device as connected, with the default MTU.
MtuRejected ==
  /\ ~renderError
  /\ conn.pc = "mtu"
  /\ connectedDevice' = DeviceObj(conn.dev, DefaultMTU)
  /\ detached' = FALSE
  /\ conn' = [conn EXCEPT !.pc = "discover"]
  /\ UNCHANGED <<loraMsg, configStatus, chunkedMessages, renderError, envVars,
                 send, wire, now, screenVars, overlap, unhandled, fed, probe, quiet, orphan, delivered, arrived>>

\* The three registrations connectToDevice and startStreamingData make.
Registrations(d) == {<<"observer", d>>, <<"lora", d>>, <<"config", d>>}

\* discoverAllServicesAndCharacteristics resolves: onDisconnected and
\* startStreamingData register the observer and the two monitors.
DiscoverResolved ==
  /\ ~renderError
  /\ conn.pc = "discover"
  /\ conn.dev \in links
  /\ listeners' = listeners \cup Registrations(conn.dev)
  /\ conn' = [pc |-> "idle", dev |-> conn.dev, result |-> "resolved"]
  /\ UNCHANGED <<hookVars, links, pending, send, wire, now, screenVars, overlap, unhandled, histVars>>

\* discoverAllServicesAndCharacteristics rejects.
DiscoverRejected ==
  /\ ~renderError
  /\ conn.pc = "discover"
  /\ ConnectFailed

(***************************************************************************)
(* The link and the callbacks the library delivers.                        *)
(***************************************************************************)
\* The link to d goes down (peer reset, radio range, or a completed cancel):
\* each registration of d gets its callback.
LinkDrop(d) ==
  /\ d \in links
  /\ links' = links \ {d}
  /\ pending' = pending \cup (listeners \cap Registrations(d))
  /\ listeners' = listeners \ Registrations(d)
  /\ UNCHANGED <<hookVars, conn, send, wire, now, screenVars, overlap, unhandled, histVars>>

\* The onDisconnected callback registered by connectToDevice.
OnDisconnected(d) ==
  /\ ~renderError
  /\ <<"observer", d>> \in pending
  /\ pending' = pending \ {<<"observer", d>>}
  /\ cleanupConnectionState
  /\ UNCHANGED <<renderError, links, listeners, conn, send, wire, now, screenVars, overlap, unhandled, fed, probe, quiet, orphan, delivered, arrived>>

\* The error branch of onLoRaMessageUpdate and of onConfigUpdate.
OnMonitorError(error) ==
  IF IsMonitorDisconnection(error)
  THEN cleanupConnectionState
  ELSE UNCHANGED <<connectedDevice, loraMsg, configStatus, chunkedMessages, detached>>

\* A monitor of a dropped link ends with an error: its callback is called with it.
MonitorDropped(kind, d, error) ==
  /\ ~renderError
  /\ <<kind, d>> \in pending
  /\ pending' = pending \ {<<kind, d>>}
  /\ OnMonitorError(error)
  /\ UNCHANGED <<renderError, links, listeners, conn, send, wire, now, screenVars, overlap, unhandled, fed, probe, quiet, orphan, delivered, arrived>>

\* onLoRaMessageUpdate with a characteristic value.
LoRaValue(value) ==
  LET loraMessage == Base64Decode(value)
      r == parseChunkedMessage(loraMessage, chunkedMessages, loraMsg, now)
  IN /\ renderError' = r.threw
     /\ chunkedMessages' = r.chunked
     /\ loraMsg' = IF r.ret THEN r.lora ELSE loraMessage
     /\ UNCHANGED <<connectedDevice, configStatus>>

\* The value of a notification with no data.
NoValue == [b64 |-> <<"n", "u", "l", "l">>, absent |-> TRUE]

\* onLoRaMessageUpdate called with a notification of d's message characteristic.
LoRaNotification(d, value) ==
  /\ ~renderError
  /\ <<"lora", d>> \in listeners
  /\ d \in links
  /\ IF value = NoValue
     THEN UNCHANGED hookVars
     ELSE LoRaValue(value)
  /\ UNCHANGED <<envVars, conn, send, wire, now, screenVars, overlap, unhandled, fed, detached>>

OnLoRaMessageUpdate(d, value) ==
  /\ LoRaNotification(d, value)
  /\ UNCHANGED <<probe, quiet, orphan, delivered, arrived>>

\* onConfigUpdate called with a notification of d's configuration characteristic.
ConfigNotification(d, value) ==
  /\ ~renderError
  /\ <<"config", d>> \in listeners
  /\ d \in links
  /\ IF value = NoValue
     THEN UNCHANGED configStatus
     ELSE configStatus' = Base64Decode(value)
  /\ UNCHANGED <<connectedDevice, loraMsg, chunkedMessages, renderError,
                 envVars, conn, send, wire, now, chat, configWire, overlap,
                 unhandled, histVars>>

OnConfigUpdate(d, value) ==
  /\ ConfigNotification(d, value)
  /\ UNCHANGED <<newChat, cfg>>

clearConfigStatus ==
  /\ ~renderError
  /\ configStatus # <<>>
  /\ configStatus' = <<>>
  /\ UNCHANGED <<connectedDevice, loraMsg, chunkedMessages, renderError,
                 envVars, conn, send, wire, now, screenVars, overlap, unhandled, histVars>>

(***************************************************************************)
(* disconnectFromDevice                                                    *)
(***************************************************************************)
\* cancelDeviceConnection either throws (caught and logged) or is under way (the
\* link drops later); the finally block cleans up in both cases. Without a
\* connected device the function does nothing. The promise cancelDeviceConnection
\* returns is neither awaited nor given a handler: for a device whose link is
\* already down it may reject.
disconnectFromDevice ==
  /\ ~renderError
  /\ IF connectedDevice # NoDevice
     THEN /\ cleanupConnectionState
          /\ IF connectedDevice.id \in links
             THEN unhandled' = unhandled
             ELSE unhandled' \in {unhandled, unhandled \cup {"cancelDeviceConnection"}}
     ELSE UNCHANGED <<connectedDevice, loraMsg, configStatus, chunkedMessages, detached,
                      unhandled>>
  /\ UNCHANGED <<renderError, envVars, conn, send, wire, now, screenVars, overlap, fed, probe, quiet, orphan, delivered, arrived>>

(***************************************************************************)
(* writeCharacteristicInChunks, called by writeToDevice (type "text") and  *)
(* by writeFileToDevice (type "file"): the call, then one step per await.  *)
(***************************************************************************)
\* String.prototype.charAt(0)
CharAt0(s) == IF s = <<>> THEN <<>> ELSE <<s[1]>>

\* `S:${messageId}:${totalChunks}:${msgType}`
StartMessage(messageId, totalChunks, msgType) ==
  TagS \o messageId \o Colon \o ToStr(totalChunks) \o Colon \o msgType

\* The chunk loop writing 1-based indices.
ChunkWireIndex_OneBased(i) == i + 1

\* The index field the chunk loop writes for its i-th chunk.
ChunkWireIndex(i) == i

\* `C:${messageId}:${i}:${chunk}` for the loop's i, with the loop's substring.
ChunkMessage(messageId, i, message, maxChunkSize) ==
  LET start == i * maxChunkSize
      end == Min(start + maxChunkSize, Len(message))
      chunk == Substring(message, start, end)
  IN TagC \o messageId \o Colon \o ToStr(ChunkWireIndex(i)) \o Colon \o chunk

\* `E:${messageId}:${totalChunks}`
EndMessage(messageId, totalChunks) ==
  TagE \o messageId \o Colon \o ToStr(totalChunks)

\* The locals of writeCharacteristicInChunks at its awaited START write.
SendCall(api, device, message, messageType, messageId) ==
  LET maxChunkSize == calculateChunkSize(device)
      totalChunks == Ceil(Len(message), maxChunkSize)
      msgType == CharAt0(messageType)
  IN [pc |-> "start", api |-> api, device |-> device, message |-> message,
      messageId |-> messageId, maxChunkSize |-> maxChunkSize,
      totalChunks |-> totalChunks, msgType |-> msgType, i |-> 0,
      result |-> NoError, outcome |-> "pending"]

\* The prologue of writeCharacteristicInChunks up to the awaited START write.
BeginSend(api, device, message, messageType, messageId) ==
  LET call == SendCall(api, device, message, messageType, messageId)
  IN /\ send' = call
     /\ wire' = <<Base64Encode(StartMessage(messageId, call.totalChunks, call.msgType))>>

\* The chat screen calls writeToDevice with the connected device.
writeToDevice(message, messageId) ==
  /\ ~renderError
  /\ send.pc \in {"idle", "done"}
  /\ connectedDevice # NoDevice
  /\ BeginSend("writeToDevice", connectedDevice, message, TextType, messageId)
  /\ fed' = <<>>
  /\ UNCHANGED <<hookVars, envVars, conn, now, screenVars, overlap, unhandled, probe, detached, quiet, orphan, delivered, arrived>>

\* `FILE:${fileName}:${fileBase64}`
FileMessage(fileName, fileBase64) == FilePrefix \o fileName \o Colon \o fileBase64

writeFileToDevice(fileName, fileBase64, messageId) ==
  /\ ~renderError
  /\ send.pc \in {"idle", "done"}
  /\ connectedDevice # NoDevice
  /\ IF fileName = <<>> \/ fileBase64 = <<>>
     THEN /\ send' = [IdleSend EXCEPT
                        !.pc = "done", !.api = "writeFileToDevice",
                        !.device = connectedDevice, !.outcome = "rejected",
                        !.result = PlainErr("Device, filename, and file data are required")]
          /\ wire' = <<>>
     ELSE BeginSend("writeFileToDevice", connectedDevice,
                    FileMessage(fileName, fileBase64), FileType, messageId)
  /\ fed' = <<>>
  /\ UNCHANGED <<hookVars, envVars, conn, now, screenVars, overlap, unhandled, probe, detached, quiet, orphan, delivered, arrived>>

Writing == {"start", "chunk", "end"}

\* The errors a characteristic write can reject with.
WriteErrors == {ErrDisconnected, ErrUnknownDisconnected, ErrNotConnected, ErrWriteFailed}

\* A call after its awaited write resolved: in the delay after START or after a
\* CHUNK, or returned after END.
AfterWrite(call) ==
  IF call.pc = "start" THEN [call EXCEPT !.pc = "startDelay"]
  ELSE IF call.pc = "chunk" THEN [call EXCEPT !.pc = "chunkDelay"]
  ELSE [call EXCEPT !.pc = "done", !.outcome = "resolved"]

\* The loop variable after the delay, and the frame the call writes next: the
\* CHUNK of that index, or END when the loop test fails.
NextIndex(call) == IF call.pc = "startDelay" THEN 0 ELSE call.i + 1

NextFrame(call) ==
  IF NextIndex(call) < call.totalChunks
  THEN ChunkMessage(call.messageId, NextIndex(call), call.message, call.maxChunkSize)
  ELSE EndMessage(call.messageId, call.totalChunks)

AfterDelay(call) ==
  [call EXCEPT !.pc = IF NextIndex(call) < call.totalChunks THEN "chunk" ELSE "end",
               !.i = NextIndex(call)]

\* The awaited write resolves: the delay timer is set, or, after END, the call
\* returns.
WriteResolved ==
  /\ ~renderError
  /\ send.pc \in Writing
  /\ send.device.id \in links
  /\ send' = AfterWrite(send)
  /\ UNCHANGED <<hookVars, envVars, conn, wire, now, screenVars, overlap, unhandled, histVars>>

\* The next write issued without awaiting the write before it or the delay.
DelayElapsed_NoAwait ==
  /\ ~renderError
  /\ send.pc \in {"start", "chunk", "startDelay", "chunkDelay"}
  /\ wire' = Append(wire, Base64Encode(NextFrame(send)))
  /\ send' = AfterDelay(send)
  /\ UNCHANGED <<hookVars, envVars, conn, now, screenVars, overlap, unhandled, histVars>>

\* The delay timer fires: the loop test, then the next chunk write or the END write.
DelayElapsed ==
  /\ ~renderError
  /\ send.pc \in {"startDelay", "chunkDelay"}
  /\ wire' = Append(wire, Base64Encode(NextFrame(send)))
  /\ send' = AfterDelay(send)
  /\ UNCHANGED <<hookVars, envVars, conn, now, screenVars, overlap, unhandled, histVars>>

\* Every error reported to the caller as a disconnection.
SendError_AlwaysDisconnected(api, error) ==
  IF api = "writeToDevice"
  THEN PlainErr("Device disconnected during message transmission")
  ELSE PlainErr("Device disconnected during file transmission")

\* The error the rejected call delivers to its caller.
SendError(api, error) ==
  IF IsDisconnectionError(error)
  THEN IF api = "writeToDevice"
       THEN PlainErr("Device disconnected during message transmission")
       ELSE PlainErr("Device disconnected during file transmission")
  ELSE error

\* The awaited write rejects: writeCharacteristicInChunks rethrows, and the catch
\* block of writeToDevice / writeFileToDevice classifies the error.
WriteRejected(error) ==
  /\ ~renderError
  /\ send.pc \in Writing
  /\ error \in {ErrDisconnected, ErrUnknownDisconnected, ErrNotConnected} =>
       send.device.id \notin links
  /\ send' = [send EXCEPT !.pc = "done", !.outcome = "rejected",
                          !.result = SendError(send.api, error)]
  /\ IF IsDisconnectionError(error)
     THEN cleanupConnectionState
     ELSE UNCHANGED <<connectedDevice, loraMsg, configStatus, chunkedMessages, detached>>
  /\ UNCHANGED <<renderError, envVars, conn, wire, now, screenVars, overlap, unhandled, fed, probe, quiet, orphan, delivered, arrived>>

(***************************************************************************)
(* A second call of onSend while the first send is awaiting a write or a   *)
(* delay: the chat screen does not hold back a send while another is in    *)
(* progress, and the hook has no queue. Both calls write to the same       *)
(* characteristic; wire records the writes of both in the order issued.    *)
(***************************************************************************)
OverlapSend(message, messageId) ==
  /\ ~renderError
  /\ send.pc \notin {"idle", "done"}
  /\ overlap.pc \in {"idle", "done"}
  /\ connectedDevice # NoDevice
  /\ messageId # send.messageId
  /\ LET call == SendCall("writeToDevice", connectedDevice, message, TextType, messageId)
     IN /\ overlap' = call
        /\ wire' = Append(wire, Base64Encode(
                     StartMessage(messageId, call.totalChunks, call.msgType)))
  /\ UNCHANGED <<hookVars, envVars, conn, send, now, screenVars, unhandled, histVars>>

OverlapWriteResolved ==
  /\ ~renderError
  /\ overlap.pc \in Writing
  /\ overlap.device.id \in links
  /\ overlap' = AfterWrite(overlap)
  /\ UNCHANGED <<hookVars, envVars, conn, send, wire, now, screenVars, unhandled, histVars>>

OverlapDelayElapsed ==
  /\ ~renderError
  /\ overlap.pc \in {"startDelay", "chunkDelay"}
  /\ wire' = Append(wire, Base64Encode(NextFrame(overlap)))
  /\ overlap' = AfterDelay(overlap)
  /\ UNCHANGED <<hookVars, envVars, conn, send, now, screenVars, unhandled, histVars>>

OverlapWriteRejected(error) ==
  /\ ~renderError
  /\ overlap.pc \in Writing
  /\ error \in {ErrDisconnected, ErrUnknownDisconnected, ErrNotConnected} =>
       overlap.device.id \notin links
  /\ overlap' = [overlap EXCEPT !.pc = "done", !.outcome = "rejected",
                                !.result = SendError(overlap.api, error)]
  /\ IF IsDisconnectionError(error)
     THEN cleanupConnectionState
     ELSE UNCHANGED <<connectedDevice, loraMsg, configStatus, chunkedMessages, detached>>
  /\ UNCHANGED <<renderError, envVars, conn, send, wire, now, screenVars, unhandled,
                 fed, probe, quiet, orphan, delivered, arrived>>

(***************************************************************************)
(* The clock, and a peer that echoes the frames of a finished send.        *)
(***************************************************************************)
MaxClock == 2

Tick ==
  /\ now < MaxClock
  /\ now' = now + 1
  /\ UNCHANGED <<hookVars, envVars, conn, send, wire, overlap, unhandled, screenVars, histVars>>

\* The peer notifies the written value at position k back: the START first, the
\* CHUNK frames in any order, the END last, each once.
Echo(d, k) ==
  /\ ~renderError
  /\ send.pc = "done" /\ send.outcome = "resolved"
  /\ k \in 1..Len(wire)
  /\ \A j \in 1..Len(fed) : fed[j] # k
  /\ k # 1 => fed # <<>>
  /\ k = Len(wire) => Len(fed) = Len(wire) - 1
  /\ <<"lora", d>> \in listeners
  /\ d \in links
  /\ fed' = Append(fed, k)
  /\ LoRaValue(wire[k])
  /\ UNCHANGED <<envVars, conn, send, wire, now, screenVars, overlap, unhandled, probe, detached, quiet, orphan, delivered, arrived>>

(***************************************************************************)
(* Frames as the wire protocol writes them, for the peer's notifications.  *)
(***************************************************************************)
StartFrame(id, total, kind) == TagS \o id \o Colon \o ToStr(total) \o Colon \o kind
ChunkFrame(id, index, data) == TagC \o id \o Colon \o ToStr(index) \o Colon \o data
EndFrame(id, total) == TagE \o id \o Colon \o ToStr(total)

IdA == <<"a", "b", "c">>
IdB == <<"x", "y", "z">>

Hi == <<"h", "i">>
HelloWorld == <<"h", "e", "l", "l", "o", " ", "w", "o", "r", "l", "d", "!">>
SuccessOk == <<"S", "U", "C", "C", "E", "S", "S", ":", "o", "k">>

(***************************************************************************)
(* The session: connection lifecycle, sends, notifications.                *)
(***************************************************************************)
SessionLoRaValues ==
  {Base64Encode(Hi), Base64Encode(StartFrame(IdA, 1, <<"t">>)), NoValue}

SessionConfigValues == {Base64Encode(SuccessOk), NoValue}

SessionMessages == {HelloWorld}
SessionFileNames == {<<>>, <<"f">>}
SessionFileData == {<<"Q", "Q", "=", "=">>}

Init ==
  /\ connectedDevice = NoDevice
  /\ loraMsg = <<>>
  /\ configStatus = <<>>
  /\ chunkedMessages = EmptyMap
  /\ renderError = FALSE
  /\ links = {}
  /\ listeners = {}
  /\ pending = {}
  /\ conn = IdleConn
  /\ send = IdleSend
  /\ wire = <<>>
  /\ now = 0
  /\ overlap = IdleSend
  /\ unhandled = {}
  /\ chat = NoChatScreen
  /\ newChat = NoNewChatScreen
  /\ cfg = IdleConfigure
  /\ configWire = <<>>
  /\ fed = <<>>
  /\ probe = NoProbe
  /\ detached = FALSE
  /\ quiet = {}
  /\ orphan = "none"
  /\ delivered = <<>>
  /\ arrived = NoneArrived

Next ==
  \/ \E d \in Devices : ConnectToDevice(d)
  \/ ConnectResolved
  \/ ConnectRejected
  \/ \E m \in NegotiatedMTUs : MtuResolved(m)
  \/ MtuRejected
  \/ DiscoverResolved
  \/ DiscoverRejected
  \/ \E d \in Devices : LinkDrop(d)
  \/ \E d \in Devices : OnDisconnected(d)
  \/ \E d \in Devices, kind \in {"lora", "config"},
        error \in {ErrDisconnected, ErrCancelled, ErrNotConnected} :
        MonitorDropped(kind, d, error)
  \/ \E d \in Devices, value \in SessionLoRaValues : OnLoRaMessageUpdate(d, value)
  \/ \E d \in Devices, value \in SessionConfigValues : OnConfigUpdate(d, value)
  \/ clearConfigStatus
  \/ disconnectFromDevice
  \/ \E message \in SessionMessages, id \in MessageIds : writeToDevice(message, id)
  \/ \E name \in SessionFileNames, data \in SessionFileData, id \in MessageIds :
        writeFileToDevice(name, data, id)
  \/ WriteResolved
  \/ DelayElapsed
  \/ \E error \in WriteErrors : WriteRejected(error)

Spec == Init /\ [][Next]_vars

(***************************************************************************)
(* The state after connectToDevice has completed for d with MTU m and      *)
(* nothing has been received or sent yet.                                  *)
(***************************************************************************)
Connected(d, m) ==
  /\ connectedDevice = DeviceObj(d, m)
  /\ loraMsg = <<>>
  /\ configStatus = <<>>
  /\ chunkedMessages = EmptyMap
  /\ renderError = FALSE
  /\ links = {d}
  /\ listeners = Registrations(d)
  /\ pending = {}
  /\ conn = [pc |-> "idle", dev |-> d, result |-> "resolved"]
  /\ send = IdleSend
  /\ wire = <<>>
  /\ now = 0
  /\ overlap = IdleSend
  /\ unhandled = {}
  /\ chat = NoChatScreen
  /\ newChat = NoNewChatScreen
  /\ cfg = IdleConfigure
  /\ configWire = <<>>
  /\ fed = <<>>
  /\ probe = NoProbe
  /\ detached = FALSE
  /\ quiet = {}
  /\ orphan = "none"
  /\ delivered = <<>>
  /\ arrived = NoneArrived

(***************************************************************************)
(* The chunk size over the MTUs a device can report (0: no MTU).           *)
(***************************************************************************)
MaxMTU == 520

InitMTU == \E m \in 0..MaxMTU : Connected("d1", m)

NextMTU == \E id \in MessageIds : writeToDevice(Hi, id)

SpecMTU == InitMTU /\ [][NextMTU]_vars

(***************************************************************************)
(* A send whose frames the peer echoes back.                               *)
(***************************************************************************)
LoopMTUs == {0, 17, 18, 23}
LoopMessages ==
  {<<>>,
   Hi,
   <<"h", "e", "l", "l", "o">>,
   <<"a", ":", "b", ":", "c", ":", "d">>,
   <<"a", "b", "c", "d", " ", "e", "f">>,
   HelloWorld}

\* No send of the loop writes more frames than this.
MaxFrames == 5

InitLoop == \E m \in LoopMTUs : Connected("d1", m)

NextLoop ==
  \/ \E message \in LoopMessages, id \in MessageIds : writeToDevice(message, id)
  \/ \E data \in SessionFileData, id \in MessageIds : writeFileToDevice(<<"f">>, data, id)
  \/ WriteResolved
  \/ DelayElapsed
  \/ \E k \in 1..MaxFrames : Echo("d1", k)

SpecLoop == InitLoop /\ [][NextLoop]_vars

(***************************************************************************)
(* The reassembler under the frames a peer can notify, in any order.       *)
(***************************************************************************)
RxFrames ==
  {Hi,
   StartFrame(IdA, 1, <<"t">>), StartFrame(IdA, 2, <<"t">>),
   StartFrame(IdA, 2, <<"f">>),
   <<"S", ":", "a", "b", "c", ":", "x", ":", "t">>,
   <<"S", ":", "o", "k">>,
   ChunkFrame(IdA, 0, <<"p">>), ChunkFrame(IdA, 1, <<"q">>),
   ChunkFrame(IdA, 1, <<"z", "z">>), ChunkFrame(IdA, 2, <<"r", ":", "s">>),
   <<"C", ":", "a", "b", "c", ":", "x", ":", "p">>,
   EndFrame(IdA, 1), EndFrame(IdA, 2),
   StartFrame(IdB, 1, <<"t">>), ChunkFrame(IdB, 1, <<"w">>), EndFrame(IdB, 1)}

RxValues == {Base64Encode(f) : f \in RxFrames} \cup {NoValue}

InitRx == Connected("d1", DefaultMTU)

\* quiet: a START for id opens a transfer that has no CHUNK frame yet; a CHUNK
\* frame for id, or the end of the transfer, takes id out.
TrackQuiet(value) ==
  LET message == Trim(Base64Decode(value))
      fields == Split(message)
      id == IF Len(fields) >= 2 THEN fields[2] ELSE <<>>
      changed == IF value = NoValue THEN quiet
                 ELSE IF StartsWith(message, TagS) /\ Len(fields) >= 4 THEN quiet \cup {id}
                 ELSE IF StartsWith(message, TagC) /\ Len(fields) >= 4 THEN quiet \ {id}
                 ELSE quiet
  IN quiet' = changed \cap DOMAIN chunkedMessages'

\* The transfer id a CHUNK or END frame names.
FrameId(frame) == Split(frame)[2]

\* orphan: "C" or "E" when the frame notified is a CHUNK or END frame that names a
\* transfer which is not open, "S" when it is a START frame that names a transfer
\* which is open, "none" after any other notification.
TrackOrphan(value) ==
  LET frame == Trim(Base64Decode(value))
  IN orphan' = IF /\ value # NoValue
                  /\ StartsWith(frame, TagC) \/ StartsWith(frame, TagE)
                  /\ FrameId(frame) \notin DOMAIN chunkedMessages
               THEN frame[1]
               ELSE IF /\ value # NoValue
                       /\ StartsWith(frame, TagS)
                       /\ Len(Split(frame)) >= 4
                       /\ FrameId(frame) \in DOMAIN chunkedMessages
               THEN "S"
               ELSE "none"

TimedLoRaMessageUpdate(d, value) ==
  /\ LoRaNotification(d, value)
  /\ TrackQuiet(value)
  /\ TrackOrphan(value)
  /\ UNCHANGED <<probe, delivered, arrived>>

NextRx ==
  \/ \E value \in RxValues : TimedLoRaMessageUpdate("d1", value)
  \/ Tick

SpecRx == InitRx /\ [][NextRx]_vars

(***************************************************************************)
(* The reassembler with a history of one CHUNK frame: probe is             *)
(* <<id, value, again>> for a CHUNK notification that was processed while  *)
(* the transfer id was open, as long as that transfer stays open (no START *)
(* for id, no completing END since); again counts its later deliveries.    *)
(***************************************************************************)
TrackProbe(value) ==
  LET message == Trim(Base64Decode(value))
      fields == Split(message)
      id == IF Len(fields) >= 2 THEN fields[2] ELSE <<>>
  IN IF value = NoValue
     THEN probe' = probe
     ELSE IF probe # NoProbe /\ probe[2] = value
     THEN probe' = <<probe[1], probe[2], 1>>
     ELSE IF StartsWith(message, TagC) /\ Len(fields) >= 4 /\ id \in DOMAIN chunkedMessages
     THEN probe' \in {probe, <<id, value, 0>>}
     ELSE IF /\ probe # NoProbe
             /\ \/ probe[1] \notin DOMAIN chunkedMessages'
                \/ StartsWith(message, TagS) /\ id = probe[1]
     THEN probe' = NoProbe
     ELSE probe' = probe

TrackedLoRaMessageUpdate(d, value) ==
  /\ LoRaNotification(d, value)
  /\ TrackProbe(value)
  /\ UNCHANGED <<quiet, orphan, delivered, arrived>>

NextDup == \E value \in RxValues : TrackedLoRaMessageUpdate("d1", value)

SpecDup == InitRx /\ [][NextDup]_vars

(***************************************************************************)
(* The connection lifecycle with two peripherals in range: connects one    *)
(* after the other, drops and disconnects.                                 *)
(***************************************************************************)
PairDevices == {"d1", "d2"}

\* The MTU a peripheral grants when the negotiation succeeds.
PairMTUs == {185}

NextPair ==
  \/ \E d \in PairDevices : ConnectToDevice(d)
  \/ ConnectResolved
  \/ ConnectRejected
  \/ \E m \in PairMTUs : MtuResolved(m)
  \/ MtuRejected
  \/ DiscoverResolved
  \/ DiscoverRejected
  \/ \E d \in PairDevices : LinkDrop(d)
  \/ \E d \in PairDevices : OnDisconnected(d)
  \/ \E d \in PairDevices, kind \in {"lora", "config"},
        error \in {ErrDisconnected, ErrNotConnected} :
        MonitorDropped(kind, d, error)
  \/ disconnectFromDevice

SpecPair == Init /\ [][NextPair]_vars

(***************************************************************************)
(* Two sends in progress at once on one connection, each called once.      *)
(***************************************************************************)
OverlapIds == {<<"m", "2", "x">>}

NextOverlap ==
  \/ \E message \in {Hi, HelloWorld}, id \in MessageIds :
        send.pc = "idle" /\ writeToDevice(message, id)
  \/ WriteResolved
  \/ DelayElapsed
  \/ \E error \in WriteErrors : WriteRejected(error)
  \/ \E id \in OverlapIds : overlap.pc = "idle" /\ OverlapSend(Hi, id)
  \/ OverlapWriteResolved
  \/ OverlapDelayElapsed
  \/ \E error \in WriteErrors : OverlapWriteRejected(error)
  \/ LinkDrop("d1")

SpecOverlap == InitRx /\ [][NextOverlap]_vars

(***************************************************************************)
(* A peer that sends three transfers at once: the frames of each in the    *)
(* protocol's form (0-based CHUNK indices), START first, END last, the     *)
(* CHUNK frames in any order, interleaved with the frames of the others.   *)
(***************************************************************************)
IdC == <<"k", "7", "q">>

PeerIds == {IdA, IdB, IdC}

\* The slices of the payload of each transfer.
PeerChunks(id) ==
  IF id = IdA THEN <<<<"p">>, <<"q", ":", "r">>>>
  ELSE IF id = IdB THEN <<<<"w">>, <<"x">>>>
  ELSE <<<<"h", "i">>>>

PeerPayload(id) == Join([k \in 1..Len(PeerChunks(id)) |-> Str(PeerChunks(id)[k])])

\* The frames of a transfer, numbered 1 (START) to total + 2 (END).
PeerFrame(id, k) ==
  LET total == Len(PeerChunks(id))
  IN IF k = 1 THEN StartFrame(id, total, <<"t">>)
     ELSE IF k = total + 2 THEN EndFrame(id, total)
     ELSE ChunkFrame(id, k - 2, PeerChunks(id)[k - 1])

\* The frame numbers of the transfer notified so far.
Arrived(id) == IF id \in DOMAIN arrived THEN arrived[id] ELSE {}

PeerNotifies(id, k) ==
  LET total == Len(PeerChunks(id))
  IN /\ k \in (1..(total + 2)) \ Arrived(id)
     /\ k # 1 => 1 \in Arrived(id)
     /\ k = total + 2 => Arrived(id) = 1..(total + 1)
     /\ LoRaNotification("d1", Base64Encode(PeerFrame(id, k)))
     /\ arrived' = Put(arrived, id, Arrived(id) \cup {k})
     /\ UNCHANGED <<probe, quiet, orphan, delivered>>

NextTwo == \E id \in PeerIds, k \in 1..4 : PeerNotifies(id, k)

SpecTwo == InitRx /\ [][NextTwo]_vars

(***************************************************************************)
(* Sends long enough for CHUNK indices of three digits.                    *)
(***************************************************************************)
FitMTUs == {23, 24}

\* The lengths of the texts sent: 100 and 101 chunks at MTU 23.
FitLengths == {1100, 1111}

\* A text of n characters.
LongMessage(n) == [k \in 1..n |-> "a"]

InitFit == \E m \in FitMTUs : Connected("d1", m)

NextFit ==
  \/ \E n \in FitLengths, id \in MessageIds :
        send.pc = "idle" /\ writeToDevice(LongMessage(n), id)
  \/ WriteResolved
  \/ DelayElapsed

SpecFit == InitFit /\ [][NextFit]_vars

(***************************************************************************)
(* The chat screen (src/app/(tabs)/chats/[id].tsx): the effect on loraMsg  *)
(* that appends what the hook received to the chat.                        *)
(***************************************************************************)
\* The position of the first character at or after i that is not a digit.
RECURSIVE SkipDigits(_, _)
SkipDigits(s, i) ==
  IF i <= Len(s) /\ IsDigit(s[i]) THEN SkipDigits(s, i + 1) ELSE i

\* -?\d+\.?\d* matched at position i: the position after the match, 0 for none.
MatchNumber(s, i) ==
  LET a == IF i <= Len(s) /\ s[i] = "-" THEN i + 1 ELSE i
      b == SkipDigits(s, a)
      c == IF b <= Len(s) /\ s[b] = "." THEN b + 1 ELSE b
  IN IF b = a THEN 0 ELSE SkipDigits(s, c)

\* The position of the first character at or after i that is not whitespace.
RECURSIVE SkipSpace(_, _)
SkipSpace(s, i) ==
  IF i <= Len(s) /\ IsWhitespace(s[i]) THEN SkipSpace(s, i + 1) ELSE i

\* loraMsg.match(MESSAGE_PATTERNS.LOCATION): <<lat, lng>>, or <<>> for no match.
LocationMatch(s) ==
  LET p == MatchNumber(s, 1)
      q == IF p # 0 /\ p <= Len(s) /\ s[p] = "," THEN SkipSpace(s, p + 1) ELSE 0
      r == IF q # 0 THEN MatchNumber(s, q) ELSE 0
  IN IF r = Len(s) + 1 /\ r # 0
     THEN <<SubSeq(s, 1, p - 1), SubSeq(s, q, Len(s))>>
     ELSE <<>>

\* The pin and camera emoji are one character each.
ReceivedLocation ==
  <<"[pin]", " ", "R", "e", "c", "e", "i", "v", "e", "d", " ", "L", "o", "c",
  "a", "t", "i", "o", "n", ":", " ", "h", "t", "t", "p", "s", ":", "/", "/",
  "m", "a", "p", "s", ".", "g", "o", "o", "g", "l", "e", ".", "c", "o", "m",
  "/", "?", "q", "=">>
ImageShared ==
  <<"[camera]", " ", "I", "m", "a", "g", "e", " ", "s", "h", "a", "r", "e",
  "d">>
ImageWasShared ==
  <<"[camera]", " ", "A", "n", " ", "i", "m", "a", "g", "e", " ", "w", "a",
  "s", " ", "s", "h", "a", "r", "e", "d", " ", "v", "i", "a", " ", "L", "o",
  "R", "a">>

processLoRaMessage(msg) ==
  LET locationMatch == LocationMatch(msg)
  IN IF locationMatch # <<>>
     THEN ReceivedLocation \o locationMatch[1] \o <<",">> \o locationMatch[2]
     ELSE IF msg = ImageShared THEN ImageWasShared
     ELSE msg

\* The effect on loraMsg, run by a render whose loraMsg differs from that of the
\* render before: GiftedChat.append puts the new message first.
LoRaMsgEffect(screen, msg) ==
  IF Trim(msg) = <<>> \/ msg = screen.lastProcessedLoraMsg
  THEN [screen EXCEPT !.loraMsg = msg]
  ELSE [screen EXCEPT !.loraMsg = msg,
                      !.lastProcessedLoraMsg = msg,
                      !.messages = <<processLoRaMessage(msg)>> \o @]

\* The chat screen is mounted for the chat id: its refs are new, its effects run.
OpenChat(id) ==
  /\ ~renderError
  /\ ~chat.open
  /\ chat' = LoRaMsgEffect([NoChatScreen EXCEPT !.open = TRUE, !.id = id], loraMsg)
  /\ UNCHANGED <<hookVars, envVars, conn, send, wire, now, overlap, unhandled,
                 newChat, cfg, configWire, histVars>>

\* The chat screen renders with the loraMsg the hook holds now, and the effect
\* runs. State updates of the hook made before the render show as one change.
ChatRender ==
  /\ ~renderError
  /\ chat.open
  /\ chat.loraMsg # loraMsg
  /\ chat' = LoRaMsgEffect(chat, loraMsg)
  /\ UNCHANGED <<hookVars, envVars, conn, send, wire, now, overlap, unhandled,
                 newChat, cfg, configWire, histVars>>

(***************************************************************************)
(* A chat screen that stays open while messages arrive, plain and chunked, *)
(* and the session is disconnected and connected again. The screen renders *)
(* every change of the hook's state before the next event: the scheduling  *)
(* most favourable to the screen.                                          *)
(***************************************************************************)
Yo == <<"y", "o">>

ChatFrames ==
  {Hi, Yo, <<" ">>,
   StartFrame(IdA, 1, <<"t">>), ChunkFrame(IdA, 1, Hi), EndFrame(IdA, 1)}

\* No more messages than this are delivered.
MaxDelivered == 3

\* delivered: the notification made the hook call setLoraMsg (a plain message,
\* or the END that completes a transfer) with text that is not blank.
TrackDelivered(value) ==
  LET frame == Trim(Base64Decode(value))
      plain == ~(StartsWith(frame, TagS) \/ StartsWith(frame, TagC) \/ StartsWith(frame, TagE))
      completed == DOMAIN chunkedMessages' # DOMAIN chunkedMessages /\ StartsWith(frame, TagE)
  IN delivered' = IF value # NoValue /\ (plain \/ completed) /\ Trim(loraMsg') # <<>>
                  THEN Append(delivered, loraMsg')
                  ELSE delivered

ChatLoRaMessageUpdate(d, value) ==
  /\ Len(delivered) < MaxDelivered
  /\ LoRaNotification(d, value)
  /\ TrackDelivered(value)
  /\ UNCHANGED <<probe, quiet, orphan, arrived>>

ChatId == <<"b", "o", "b", "_", "d", "a", "5", "a", "1", "7", "b", "4">>

\* The open chat screen has rendered the hook's current loraMsg.
Rendered == chat.open /\ chat.loraMsg = loraMsg

NextChat ==
  \/ OpenChat(ChatId)
  \/ ChatRender
  \/ \E frame \in ChatFrames :
        Rendered /\ ChatLoRaMessageUpdate("d1", Base64Encode(frame))
  \/ Rendered /\ disconnectFromDevice
  \/ Rendered /\ LinkDrop("d1")
  \/ Rendered /\ OnDisconnected("d1")
  \/ Rendered /\ ConnectToDevice("d1")
  \/ Rendered /\ ConnectResolved
  \/ Rendered /\ MtuResolved(DefaultMTU)
  \/ Rendered /\ DiscoverResolved

SpecChat == InitRx /\ [][NextChat]_vars

(***************************************************************************)
(* configureEndpoint, the new-chat screen that calls it for the endpoint   *)
(* the user types, and the chat screen that calls it again for the         *)
(* endpoint it reads back from the chat id.                                *)
(***************************************************************************)
UpperCase ==
  <<"A", "B", "C", "D", "E", "F", "G", "H", "I", "J", "K", "L", "M",
    "N", "O", "P", "Q", "R", "S", "T", "U", "V", "W", "X", "Y", "Z">>
LowerCase ==
  <<"a", "b", "c", "d", "e", "f", "g", "h", "i", "j", "k", "l", "m",
    "n", "o", "p", "q", "r", "s", "t", "u", "v", "w", "x", "y", "z">>

\* String.prototype.toLowerCase
ToLowerCase(s) ==
  [k \in 1..Len(s) |->
     IF \E u \in 1..26 : UpperCase[u] = s[k]
     THEN LowerCase[CHOOSE u \in 1..26 : UpperCase[u] = s[k]]
     ELSE s[k]]

IsLower(c) == \E u \in 1..26 : LowerCase[u] = c
IsUpper(c) == \E u \in 1..26 : UpperCase[u] = c

\* The character classes [a-zA-Z0-9_] and [a-fA-F0-9].
IsWordChar(c) == IsLower(c) \/ IsUpper(c) \/ IsDigit(c) \/ c = "_"
IsHexChar(c) == IsDigit(c) \/ \E u \in 1..6 : c \in {LowerCase[u], UpperCase[u]}

\* /^[a-zA-Z0-9_]+$/.test(name)
NameFormat(name) ==
  /\ Len(name) > 0
  /\ \A k \in 1..Len(name) : IsWordChar(name[k])

\* /^[a-fA-F0-9]{8}$/.test(mac)
MacFormat(mac) ==
  /\ Len(mac) = 8
  /\ \A k \in 1..8 : IsHexChar(mac[k])

\* `${deviceName}_${macAddress}`.toLowerCase().replace(/[^a-z0-9_]/g, "")
ChatIdOf(deviceName, macAddress) ==
  SelectSeq(ToLowerCase(deviceName \o <<"_">> \o macAddress),
            LAMBDA c : IsLower(c) \/ IsDigit(c) \/ c = "_")

\* String.prototype.split("_")
RECURSIVE SplitUnderscore(_)
SplitUnderscore(s) ==
  LET k == IndexOf(s, "_", 0)
  IN IF k = -1 THEN <<s>>
     ELSE <<Substring(s, 0, k)>> \o SplitUnderscore(SubstringFrom(s, k + 1))

\* The configuration message of configureEndpoint.
ConfigMessage(name, macAddress) == <<"n", "a", "m", "e", "=">> \o name \o <<",", "m", "a", "c", "=">> \o macAddress

\* configureEndpoint is called: the message is written to the configuration
\* characteristic, and the call awaits the write.
BeginConfigure(caller, device, name, macAddress) ==
  /\ cfg.pc = "idle"
  /\ cfg' = [pc |-> "writing", caller |-> caller, device |-> device,
             name |-> name, macAddress |-> macAddress,
             unanswered |-> cfg.unanswered + 1]
  /\ configWire' = Append(configWire, Base64Encode(ConfigMessage(name, macAddress)))

\* The write resolves and configureEndpoint returns true. The new-chat screen
\* waits for configStatus; the chat screen records the id as configured.
ConfigWriteResolved ==
  /\ ~renderError
  /\ cfg.pc = "writing"
  /\ cfg.device.id \in links
  /\ cfg' = [IdleConfigure EXCEPT !.unanswered = cfg.unanswered]
  /\ chat' = IF cfg.caller = "chat" /\ chat.open
             THEN [chat EXCEPT !.autoConfigured = Str(chat.id)]
             ELSE chat
  /\ UNCHANGED <<hookVars, envVars, conn, send, wire, now, overlap, unhandled,
                 newChat, configWire, histVars>>

\* The write rejects: configureEndpoint cleans up on a disconnection error and
\* returns false. The new-chat screen stops configuring and shows an alert; the
\* chat screen records the id as configured all the same.
ConfigWriteRejected(error) ==
  /\ ~renderError
  /\ cfg.pc = "writing"
  /\ error \in {ErrDisconnected, ErrUnknownDisconnected, ErrNotConnected} =>
       cfg.device.id \notin links
  /\ cfg' = [IdleConfigure EXCEPT !.unanswered = cfg.unanswered]
  /\ IF IsDisconnectionError(error)
     THEN cleanupConnectionState
     ELSE UNCHANGED <<connectedDevice, loraMsg, configStatus, chunkedMessages, detached>>
  /\ newChat' = IF cfg.caller = "newChat" /\ newChat.open
                THEN [newChat EXCEPT !.isConfiguring = FALSE, !.alert = "sendFailed"]
                ELSE newChat
  /\ chat' = IF cfg.caller = "chat" /\ chat.open
             THEN [chat EXCEPT !.autoConfigured = Str(chat.id)]
             ELSE chat
  /\ UNCHANGED <<renderError, envVars, conn, send, wire, now, overlap, unhandled,
                 configWire, fed, probe, quiet, orphan, delivered, arrived>>

\* The device answers a configuration write, once, with a notification: the hook
\* stores it, and the new-chat screen has one since its last request.
AckedConfigUpdate(d, value) ==
  /\ cfg.unanswered > 0
  /\ ConfigNotification(d, value)
  /\ cfg' = [cfg EXCEPT !.unanswered = @ - 1]
  /\ newChat' = IF value = NoValue THEN newChat
                ELSE [newChat EXCEPT !.ackSince = TRUE]

\* The new-chat screen is mounted: its state is new, and the mount effect
\* clears the configuration status.
OpenNewChat ==
  /\ ~renderError
  /\ ~newChat.open
  /\ ~chat.open
  /\ newChat' = [NoNewChatScreen EXCEPT !.open = TRUE]
  /\ configStatus' = <<>>
  /\ UNCHANGED <<connectedDevice, loraMsg, chunkedMessages, renderError, envVars,
                 conn, send, wire, now, overlap, unhandled, chat, cfg, configWire,
                 histVars>>

\* The user fills in the two inputs, editable while no configuration is under
\* way: the name input drops what is not a letter, a digit or an underscore, the
\* MAC input takes 8 characters, drops what is not a hex digit and lower-cases.
TypeEndpoint(nameText, macText) ==
  /\ ~renderError
  /\ newChat.open
  /\ ~newChat.isConfiguring
  /\ newChat.alert = "none"
  /\ Len(macText) <= 8
  /\ newChat' = [newChat EXCEPT
                   !.deviceName = SelectSeq(nameText, IsWordChar),
                   !.macAddress = ToLowerCase(SelectSeq(macText, IsHexChar))]
  /\ UNCHANGED <<hookVars, envVars, conn, send, wire, now, overlap, unhandled,
                 chat, cfg, configWire, histVars>>

\* handleConfigureEndpoint, called by the Configure button with no arguments.
handleConfigureEndpoint ==
  LET nameToUse == ToLowerCase(Trim(newChat.deviceName))
      macToUse == ToLowerCase(Trim(newChat.macAddress))
  IN /\ ~renderError
     /\ newChat.open
     /\ ~newChat.isConfiguring
     /\ newChat.alert = "none"
     /\ IF connectedDevice = NoDevice
        THEN /\ newChat' = [newChat EXCEPT !.alert = "notConnected"]
             /\ UNCHANGED <<cfg, configWire>>
        ELSE IF ~NameFormat(nameToUse) \/ ~MacFormat(macToUse)
        THEN /\ newChat' = [newChat EXCEPT !.alert = "invalid"]
             /\ UNCHANGED <<cfg, configWire>>
        ELSE /\ newChat' = [newChat EXCEPT !.isConfiguring = TRUE, !.ackSince = FALSE]
             /\ BeginConfigure("newChat", connectedDevice, nameToUse, ToLowerCase(macToUse))
     /\ UNCHANGED <<hookVars, envVars, conn, send, wire, now, overlap, unhandled,
                    chat, histVars>>

\* The new-chat screen renders with the configStatus the hook holds now and its
\* own isConfiguring, one of which differs from the render before, and its
\* effects run. The effect on configStatus takes any non-empty status as the
\* answer while isConfiguring is set. The mount effect depends on
\* clearConfigStatus, which the hook creates anew in each of its renders and the
\* provider hands on: the effect runs again, and clears the status, in the
\* render that follows a change of the hook's state (rerun).
NewChatRender ==
  LET rerun == configStatus # newChat.seen[1]
      answered == configStatus # <<>> /\ newChat.isConfiguring
      shown == IF ~answered THEN newChat.alert
               ELSE IF StartsWith(configStatus, <<"S", "U", "C", "C", "E", "S", "S", ":">>) THEN "success"
               ELSE IF StartsWith(configStatus, <<"E", "R", "R", "O", "R", ":">>) THEN "configError"
               ELSE newChat.alert
      status == IF rerun THEN <<>> ELSE configStatus
  IN /\ ~renderError
     /\ newChat.open
     /\ newChat.seen # <<configStatus, newChat.isConfiguring>>
     /\ configStatus' = status
     /\ newChat' = [newChat EXCEPT
                      !.isConfiguring = @ /\ ~answered,
                      !.alert = shown,
                      !.fresh = IF answered /\ shown # newChat.alert
                                THEN newChat.ackSince ELSE @,
                      !.seen = <<status, newChat.isConfiguring /\ ~answered>>]
     /\ UNCHANGED <<connectedDevice, loraMsg, chunkedMessages, renderError, envVars,
                    conn, send, wire, now, overlap, unhandled, chat, cfg, configWire,
                    histVars>>

\* The user dismisses an error alert.
DismissAlert ==
  /\ ~renderError
  /\ newChat.open
  /\ newChat.alert \in {"notConnected", "invalid", "sendFailed", "configError"}
  /\ newChat' = [newChat EXCEPT !.alert = "none"]
  /\ UNCHANGED <<hookVars, envVars, conn, send, wire, now, overlap, unhandled,
                 chat, cfg, configWire, histVars>>

\* The user presses OK on the success alert: addConfiguredChat stores the chat
\* under ChatIdOf, and router.replace mounts the chat screen for that id.
OpenConfiguredChat ==
  LET chatId == ChatIdOf(newChat.deviceName, newChat.macAddress)
  IN /\ ~renderError
     /\ newChat.open
     /\ newChat.alert = "success"
     /\ ~chat.open
     /\ newChat' = [newChat EXCEPT !.open = FALSE, !.alert = "none",
                                   !.chatId = Str(chatId)]
     /\ chat' = LoRaMsgEffect([NoChatScreen EXCEPT !.open = TRUE, !.id = chatId],
                              loraMsg)
     /\ UNCHANGED <<hookVars, envVars, conn, send, wire, now, overlap, unhandled,
                    cfg, configWire, histVars>>

\* The endpoint autoConfigureEndpoint reads from a chat id: the first two fields
\* between underscores, when the second has 8 characters and the first is not
\* empty; Null when the effect makes no call.
AutoConfigEndpoint(id) ==
  LET parts == SplitUnderscore(id)
  IN IF IndexOf(id, "_", 0) # -1 /\ Len(parts) >= 2
        /\ Len(parts[2]) = 8 /\ Len(parts[1]) > 0
     THEN <<parts[1], parts[2]>>
     ELSE Null

\* autoConfigureEndpoint, the effect of the chat screen on its id and the
\* connected device, for an id that is not recorded as configured.
autoConfigureEndpoint ==
  LET endpoint == AutoConfigEndpoint(chat.id)
  IN /\ ~renderError
     /\ chat.open
     /\ connectedDevice # NoDevice
     /\ chat.autoConfigured # Str(chat.id)
     /\ endpoint # Null
     /\ BeginConfigure("chat", connectedDevice, endpoint[1], endpoint[2])
     /\ UNCHANGED <<hookVars, envVars, conn, send, wire, now, overlap, unhandled,
                    chat, newChat, histVars>>

\* The chat screen is left.
CloseChat ==
  /\ ~renderError
  /\ chat.open
  /\ cfg.pc = "idle"
  /\ chat' = NoChatScreen
  /\ UNCHANGED <<hookVars, envVars, conn, send, wire, now, overlap, unhandled,
                 newChat, cfg, configWire, histVars>>

\* The texts the user types into the two inputs, and the answers of the device.
EndpointNames == {<<"b", "o", "b">>, <<"A", "l">>, <<"n", "_", "0", "a", "1", "b", "2", "c", "3", "d">>, <<"a", " ", "b">>}
EndpointMacs == {<<"d", "a", "5", "a", "1", "7", "b", "4">>, <<"D", "A", "5", "A", "1", "7", "B", "4">>, <<"b", "e", "e", "f">>}
ConfigAcks == {<<"S", "U", "C", "C", "E", "S", "S", ":", "o", "k">>, <<"E", "R", "R", "O", "R", ":", "n", "o">>}
MaxConfigWrites == 2

\* The new-chat screen has rendered the hook's configStatus and its own state.
NewChatRendered == newChat.seen = <<configStatus, newChat.isConfiguring>>

\* The user acts on what the screen shows: on a rendered screen, but for the
\* Configure button, which can be pressed when a notification has arrived and
\* the render that follows it has not run yet.
NextConfig ==
  \/ OpenNewChat
  \/ \E nameText \in EndpointNames, macText \in EndpointMacs :
        NewChatRendered /\ TypeEndpoint(nameText, macText)
  \/ /\ Len(configWire) < MaxConfigWrites
     /\ newChat.seen[2] = newChat.isConfiguring
     /\ handleConfigureEndpoint
  \/ ConfigWriteResolved
  \/ \E error \in {ErrDisconnected, ErrWriteFailed} : ConfigWriteRejected(error)
  \/ \E ack \in ConfigAcks : AckedConfigUpdate("d1", Base64Encode(ack))
  \/ NewChatRender
  \/ NewChatRendered /\ DismissAlert
  \/ NewChatRendered /\ OpenConfiguredChat
  \/ Len(configWire) < MaxConfigWrites /\ autoConfigureEndpoint
  \/ CloseChat
  \/ LinkDrop("d1")

SpecConfig == InitRx /\ [][NextConfig]_vars

(***************************************************************************)
(* Properties.                                                             *)
(***************************************************************************)

\* C8: the maximum chunk payload is a function of the MTU alone: max(mtu - 12, 5)
\* for a device with an MTU (11 for 23, 173 for 185, 505 for 517), 11 without a
\* device or without an MTU, and never below 5.
C8_ChunkSizeOfMTU ==
  /\ calculateChunkSize(NoDevice) = 11
  /\ send.pc = "start" =>
       LET m == send.device.mtu
           size == send.maxChunkSize
       IN /\ size = (IF m = 0 THEN 11 ELSE IF m - 12 > 5 THEN m - 12 ELSE 5)
          /\ size >= 5
          /\ m = 23 => size = 11
          /\ m = 185 => size = 173
          /\ m = 517 => size = 505

\* A send from a device with MTU 517 has computed its chunk size.
C8_Witness == send.pc = "start" /\ send.device.mtu = 517 /\ send.maxChunkSize = 505

\* C2: the frames a send writes, in order: START(id, ceil(L/m), kind), then
\* CHUNK(id, i, payload[i*m .. min((i+1)*m, L))) for i = 0, 1, ..., total-1, then
\* END(id, total); one id throughout; kind t for writeToDevice, f for
\* writeFileToDevice. At every moment of a send the values written so far are a
\* prefix of that sequence, and a send that returned has written all of it.
C2_Total ==
  LET L == Len(send.message)
      m == calculateChunkSize(send.device)
  IN IF L % m = 0 THEN L \div m ELSE (L \div m) + 1

C2_Frame(k) ==
  LET L == Len(send.message)
      m == calculateChunkSize(send.device)
      kind == IF send.api = "writeToDevice" THEN <<"t">> ELSE <<"f">>
      i == k - 2
      upto == IF (i + 1) * m < L THEN (i + 1) * m ELSE L
  IN IF k = 1 THEN StartFrame(send.messageId, C2_Total, kind)
     ELSE IF k <= C2_Total + 1
     THEN ChunkFrame(send.messageId, i, SubSeq(send.message, i * m + 1, upto))
     ELSE EndFrame(send.messageId, C2_Total)

C2_FrameSequence ==
  send.pc \notin {"idle"} /\ wire # <<>> =>
    /\ Len(wire) <= C2_Total + 2
    /\ \A k \in 1..Len(wire) : wire[k] = Base64Encode(C2_Frame(k))
    /\ send.outcome = "resolved" => Len(wire) = C2_Total + 2

\* A send of three chunks has returned.
C2_Witness ==
  /\ send.pc = "done" /\ send.outcome = "resolved"
  /\ send.totalChunks = 3 /\ Len(wire) = 5

\* The session state after cleanup.
Cleared ==
  /\ connectedDevice = NoDevice
  /\ loraMsg = <<>>
  /\ configStatus = <<>>
  /\ chunkedMessages = EmptyMap

\* The looped-back peer has echoed every frame of the send that returned.
AllEchoed == send.pc = "done" /\ send.outcome = "resolved" /\ Len(fed) = Len(wire)

\* The frames were echoed in the order they were written.
EchoedInOrder == \A j \in 1..Len(fed) : fed[j] = j

\* C1: round trip: the frames of a send (START, CHUNK 0..n-1, END), fed in
\* emission order to parseChunkedMessage, end with loraMsg equal to the payload and
\* no inbound transfer open.
C1_RoundTrip ==
  AllEchoed /\ EchoedInOrder => loraMsg = send.message /\ chunkedMessages = EmptyMap

\* C5: out-of-order delivery: after the START, the CHUNK frames of the transfer
\* delivered in an order other than index order, then the END, emit the payload
\* (the slices concatenated in index order) and close the transfer.
C5_AnyOrder ==
  AllEchoed /\ ~EchoedInOrder => loraMsg = send.message /\ chunkedMessages = EmptyMap

\* C3: a write of a send that fails with a disconnection-class error (code 201 or
\* a message containing "disconnected") ends the send: (a) no frame is written
\* then or until another send begins, (b) the caller gets a "Device disconnected
\* during ..." error, (c) the session state is cleared.
C3_DisconnectDuringSend ==
  [][/\ \A error \in WriteErrors :
          /\ error.errorCode = 201 \/ IncludesDisconnected(error.message)
          /\ WriteRejected(error)
          => /\ wire' = wire
             /\ send'.pc = "done" /\ send'.outcome = "rejected"
             /\ send'.result.message \in
                  {"Device disconnected during message transmission",
                   "Device disconnected during file transmission"}
             /\ Cleared'
     /\ send.outcome = "rejected" /\ send'.pc # "start" => wire' \in {wire, <<>>}
    ]_vars

\* The first CHUNK write of a two-chunk send failed with a disconnection error.
C3_Witness ==
  /\ send.pc = "done" /\ send.outcome = "rejected"
  /\ send.result.message = "Device disconnected during message transmission"
  /\ send.totalChunks = 2 /\ Len(wire) = 2
  /\ Cleared

\* C9: after a detected disconnect the session state is cleared and stays cleared
\* until a device is recorded again, whatever notifications arrive in between.
C9_NoStaleData == detached => Cleared

\* C10: every call of disconnectFromDevice ends with the session state cleared,
\* with or without a connected device, and a second call changes nothing.
C10_DisconnectAlwaysClears ==
  ~renderError =>
    /\ ~ENABLED (disconnectFromDevice /\ ~Cleared')
    /\ ~ENABLED (disconnectFromDevice /\ connectedDevice' # NoDevice)

\* C4: a CHUNK frame processed a second time for a transfer that is still open,
\* whatever was notified in between, leaves the transfer's slot array and its
\* received count as they are.
C4_DuplicateChunkIdempotent ==
  [][\A value \in RxValues :
       /\ probe # NoProbe
       /\ probe[2] = value
       /\ LoRaNotification("d1", value)
       => /\ probe[1] \in DOMAIN chunkedMessages'
          /\ chunkedMessages'[probe[1]].chunks = chunkedMessages[probe[1]].chunks
          /\ chunkedMessages'[probe[1]].receivedChunks =
               chunkedMessages[probe[1]].receivedChunks
    ]_vars

\* The CHUNK frame that filled slot 0 of a two-chunk transfer was notified again.
C4_Witness ==
  /\ probe = <<IdA, Base64Encode(ChunkFrame(IdA, 1, <<"q">>)), 1>>
  /\ IdA \in DOMAIN chunkedMessages
  /\ chunkedMessages[IdA].totalChunks = 2
  /\ chunkedMessages[IdA].chunks[1] = Str(<<"q">>)
  /\ chunkedMessages[IdA].receivedChunks = 1

\* C6: a CHUNK or END frame that names a transfer which is not open (never
\* started, or already completed) raises no error, opens no transfer, emits no
\* message and leaves the open transfers as they are.
C6_UnknownTransferDropped ==
  [][\A frame \in RxFrames :
       /\ StartsWith(frame, TagC) \/ StartsWith(frame, TagE)
       /\ FrameId(frame) \notin DOMAIN chunkedMessages
       /\ LoRaNotification("d1", Base64Encode(frame))
       => /\ ~renderError'
          /\ chunkedMessages' = chunkedMessages
          /\ loraMsg' = loraMsg
    ]_vars

\* The END frame of a transfer was notified again after the transfer completed.
C6_Witness ==
  /\ orphan = "E"
  /\ loraMsg = <<"q">>
  /\ chunkedMessages = EmptyMap
  /\ ~renderError

\* The quiescence window, in ticks of the clock.
QuiescenceWindow == 1

\* C7: a transfer opened by a START that gets no CHUNK frame is not open any more
\* once the quiescence window has passed since its START, with no disconnect.
C7_StaleTransferEvicted ==
  \A id \in quiet \cap DOMAIN chunkedMessages :
    now - chunkedMessages[id].timestamp <= QuiescenceWindow

\* C11: once connectToDevice has recorded a device as connected, a drop of its
\* link goes through the observer's cleanup: whenever the link is down while
\* connectedDevice still names the device, the onDisconnected callback is due.
C11_DropAlwaysObserved ==
  \A d \in Devices :
    connectedDevice.id = d /\ d \notin links => <<"observer", d>> \in pending

\* C12: at most one BLE link is up at any time, also when connectToDevice is
\* called while the link of an earlier connect is still up.
C12_SinglePeripheral == Cardinality(links) <= 1

\* The transfer id of the k-th value written.
WireId(k) == FrameId(Base64Decode(wire[k]))

\* C13: the frames of two transfers never interleave on the message
\* characteristic: between two frames of one transfer no frame of another
\* transfer is written, also when onSend is called again during a send.
C13_NoInterleaving ==
  \A a, b, c \in 1..Len(wire) :
    a < b /\ b < c /\ WireId(a) = WireId(c) => WireId(b) = WireId(a)

\* A step in which a call that is in progress issues a characteristic write.
IssuesWrite(call, next) ==
  /\ call.pc \notin {"idle", "done"}
  /\ next # call
  /\ next.pc \in Writing

\* C14: no pipelining within a send: a call in progress issues a write only from
\* the delay that follows its previous write having resolved, one frame per
\* step, so that at most one write of the call is outstanding.
C14_NoPipelining ==
  [][/\ IssuesWrite(send, send') =>
          /\ send.pc \in {"startDelay", "chunkDelay"}
          /\ wire' = Append(wire, Base64Encode(NextFrame(send)))
     /\ IssuesWrite(overlap, overlap') =>
          /\ overlap.pc \in {"startDelay", "chunkDelay"}
          /\ wire' = Append(wire, Base64Encode(NextFrame(overlap)))
    ]_vars

\* The second CHUNK write of a send is outstanding, after START and the first
\* CHUNK resolved.
C14_Witness ==
  /\ send.pc = "chunk" /\ send.i = 1 /\ send.totalChunks = 2
  /\ overlap.pc = "idle"
  /\ Len(wire) = 3

\* A decimal number: one or more digits.
IsDecimal(text) == text # <<>> /\ \A k \in 1..Len(text) : IsDigit(text[k])

\* The frames of the chunk protocol: S:<id>:<total>:<kind>, C:<id>:<index>:<data>
\* (the data may contain colons), E:<id>:<total>.
WellFormedFrame(frame) ==
  LET fields == Split(frame)
  IN \/ StartsWith(frame, TagS) /\ Len(fields) = 4 /\ IsDecimal(fields[3])
     \/ StartsWith(frame, TagC) /\ Len(fields) >= 4 /\ IsDecimal(fields[3])
     \/ StartsWith(frame, TagE) /\ Len(fields) = 3 /\ IsDecimal(fields[3])

\* C15: a notification that is not a well-formed START, CHUNK or END frame, text
\* that merely begins with S:, C: or E: included, raises no error, changes no
\* inbound transfer and is emitted verbatim as loraMsg.
C15_NonProtocolPassesThrough ==
  [][\A frame \in RxFrames :
       /\ ~WellFormedFrame(frame)
       /\ LoRaNotification("d1", Base64Encode(frame))
       => /\ ~renderError'
          /\ chunkedMessages' = chunkedMessages
          /\ loraMsg' = frame
    ]_vars

\* C16: a write of a send that fails with an error that is not disconnection-class
\* ends the send: no frame is written then or until another send begins, the
\* caller gets the original error, and connectedDevice, loraMsg, configStatus and
\* the open inbound transfers are unchanged; no send writes a frame twice.
C16_WriteErrorPropagates ==
  [][/\ \A error \in WriteErrors :
          /\ ~(error.errorCode = 201 \/ IncludesDisconnected(error.message))
          /\ WriteRejected(error)
          => /\ wire' = wire
             /\ send'.pc = "done" /\ send'.outcome = "rejected"
             /\ send'.result = error
             /\ UNCHANGED <<connectedDevice, loraMsg, configStatus, chunkedMessages>>
     /\ send.outcome = "rejected" /\ send.result \in WriteErrors /\ send'.pc # "start"
          => wire' = wire \/ wire' = <<>>
     /\ Len(wire') = Len(wire) + 1
          => \A k \in 1..Len(wire) : wire[k] # wire'[Len(wire')]
    ]_vars

\* The first CHUNK write of a send failed with a write error while a message
\* received earlier is still shown.
C16_Witness ==
  /\ send.pc = "done" /\ send.outcome = "rejected"
  /\ send.result = ErrWriteFailed
  /\ Len(wire) = 2
  /\ connectedDevice # NoDevice
  /\ loraMsg = Hi

\* C17: no failure of a transport operation is left unhandled: every rejection
\* ends in a handler at the call site or in a session reset.
C17_NoUnhandledRejection == unhandled = {}

\* C18: a failed MTU negotiation is not fatal: whatever requestMTU answers,
\* connectToDevice goes on to discovery with the device recorded as connected
\* (with the default MTU when the negotiation failed); when it completes, the
\* disconnect observer and both monitors are registered; a send to a device
\* recorded with the default MTU uses the chunk size of that MTU.
C18_MtuFailureNotFatal ==
  [][/\ conn.pc = "mtu" /\ conn'.pc # "mtu"
          => /\ conn'.pc = "discover"
             /\ connectedDevice' \in
                  {DeviceObj(conn.dev, m) : m \in PairMTUs \cup {DefaultMTU}}
     /\ conn.pc = "discover" /\ conn'.pc = "idle" /\ conn'.result = "resolved"
          => /\ {<<"observer", conn.dev>>, <<"lora", conn.dev>>, <<"config", conn.dev>>}
                  \subseteq listeners'
             /\ connectedDevice' = connectedDevice
     /\ connectedDevice'.mtu = DefaultMTU
          => SendCall("writeToDevice", connectedDevice', Hi, TextType, IdA).maxChunkSize
               = DefaultMTU - 12
    ]_vars

\* connectToDevice has completed for d1 after requestMTU failed (a granted MTU
\* is not the default one).
C18_Witness ==
  /\ conn = [pc |-> "idle", dev |-> "d1", result |-> "resolved"]
  /\ connectedDevice = DeviceObj("d1", DefaultMTU)
  /\ DefaultMTU \notin PairMTUs
  /\ links = {"d1"}
  /\ listeners = {<<"observer", "d1">>, <<"lora", "d1">>, <<"config", "d1">>}

\* C19: after connectToDevice has rejected with "Connection failed" (the connect
\* or the discovery failed), connectedDevice is null and no link to that device
\* remains.
C19_ConnectFailureIdle ==
  conn.pc = "idle" /\ conn.result = "Connection failed"
    => connectedDevice = NoDevice /\ conn.dev \notin links

\* The index and the data of a CHUNK frame C:<id>:<index>:<data>.
WireIndex(frame) == ParseInt(Split(frame)[3])
WireData(frame) ==
  SubSeq(frame, Len(TagC) + Len(FrameId(frame)) + Len(Split(frame)[3]) + 3, Len(frame))

\* C20: CHUNK indices are 0-based on the receiving side: for an open transfer of
\* n chunks a CHUNK frame with wire index i fills slot i when 0 <= i < n and the
\* slot is empty, and is dropped, leaving the transfer unchanged, otherwise.
C20_ZeroBasedReceive ==
  [][\A frame \in RxFrames :
       /\ StartsWith(frame, TagC)
       /\ FrameId(frame) \in DOMAIN chunkedMessages
       /\ LoRaNotification("d1", Base64Encode(frame))
       => LET id == FrameId(frame)
              i == WireIndex(frame)
              before == chunkedMessages[id]
          IN IF 0 <= i /\ i < before.totalChunks /\ before.chunks[i + 1] = Null
             THEN /\ id \in DOMAIN chunkedMessages'
                  /\ chunkedMessages'[id].chunks =
                       [before.chunks EXCEPT ![i + 1] = Str(WireData(frame))]
                  /\ chunkedMessages'[id].receivedChunks = before.receivedChunks + 1
             ELSE chunkedMessages' = chunkedMessages
    ]_vars

\* C21: an END frame for an open transfer completes it exactly when its received
\* count equals its declared total: then the payload is emitted (in the form of
\* the transfer's kind) and the transfer is deleted; otherwise nothing is emitted
\* and the open transfers stay as they are.
C21_EndCompletesIffComplete ==
  [][\A frame \in RxFrames :
       /\ StartsWith(frame, TagE)
       /\ FrameId(frame) \in DOMAIN chunkedMessages
       /\ LoRaNotification("d1", Base64Encode(frame))
       => LET id == FrameId(frame)
              before == chunkedMessages[id]
              filled == {k \in 1..Len(before.chunks) : before.chunks[k] # Null}
          IN IF before.receivedChunks = before.totalChunks
             THEN /\ loraMsg' = CompletedMessage(before.messageType, Join(before.chunks))
                  /\ id \notin DOMAIN chunkedMessages'
                  /\ \A other \in DOMAIN chunkedMessages \ {id} :
                       /\ other \in DOMAIN chunkedMessages'
                       /\ chunkedMessages'[other] = chunkedMessages[other]
                  /\ Cardinality(filled) = before.totalChunks
             ELSE /\ loraMsg' = loraMsg
                  /\ chunkedMessages' = chunkedMessages
    ]_vars

\* A two-chunk transfer of kind f has completed on its END while another transfer,
\* opened with no chunk received, is still open.
C21_Witness ==
  /\ loraMsg = FileReceived \o <<"q", "r", ":", "s">>
  /\ IdA \notin DOMAIN chunkedMessages
  /\ IdB \in DOMAIN chunkedMessages
  /\ chunkedMessages[IdB].receivedChunks = 0
  /\ orphan = "none"

\* The total field of an END frame E:<id>:<total>.
EndTotal(frame) == ParseInt(Split(frame)[3])

\* C22: an END frame whose total field differs from the total the transfer's
\* START declared does not complete the transfer: nothing is emitted and the
\* transfer is not deleted.
C22_EndTotalMustMatch ==
  [][\A frame \in RxFrames :
       /\ StartsWith(frame, TagE)
       /\ FrameId(frame) \in DOMAIN chunkedMessages
       /\ EndTotal(frame) # chunkedMessages[FrameId(frame)].totalChunks
       /\ LoRaNotification("d1", Base64Encode(frame))
       => /\ loraMsg' = loraMsg
          /\ FrameId(frame) \in DOMAIN chunkedMessages'
    ]_vars

\* C23: inbound transfers with different ids are independent: a frame of one
\* transfer changes neither the existence nor the slots, count or kind of any
\* other transfer, and the END of a transfer whose chunks have all arrived emits
\* that transfer's payload and closes it.
C23_TransfersIndependent ==
  [][\A id \in PeerIds, k \in 1..4 :
       PeerNotifies(id, k)
       => /\ DOMAIN chunkedMessages' \ {id} = DOMAIN chunkedMessages \ {id}
          /\ \A other \in DOMAIN chunkedMessages \ {id} :
               chunkedMessages'[other] = chunkedMessages[other]
          /\ k = Len(PeerChunks(id)) + 2
               => /\ loraMsg' = PeerPayload(id)
                  /\ id \notin DOMAIN chunkedMessages'
    ]_vars

\* The first half of C23 alone: a frame of one transfer leaves the others alone.
TransfersIsolated ==
  [][\A id \in PeerIds, k \in 1..4 :
       PeerNotifies(id, k)
       => /\ DOMAIN chunkedMessages' \ {id} = DOMAIN chunkedMessages \ {id}
          /\ \A other \in DOMAIN chunkedMessages \ {id} :
               chunkedMessages'[other] = chunkedMessages[other]
    ]_vars

\* C24: every CHUNK frame fits in one BLE write: for a negotiated MTU of 23 or
\* more, every frame C:<id>:<i>:<data> a send writes is at most MTU - 3
\* characters long, whatever the number of digits of i.
C24_ChunkFrameFits ==
  \A k \in 1..Len(wire) :
    LET frame == Base64Decode(wire[k])
    IN send.device.mtu >= 23 /\ StartsWith(frame, TagC)
         => Len(frame) <= send.device.mtu - 3

\* A START, CHUNK or END frame that names the transfer id.
Names(frame, tag, id) == StartsWith(frame, tag) /\ FrameId(frame) = id

\* C25: completion is evaluated only when an END frame is processed: an open
\* transfer, all its slots filled or not, stays open under every notification
\* that is neither an END nor a START for its id, and a CHUNK frame (the missing
\* chunk arriving after an early END included) emits nothing.
C25_CompletionOnlyOnEnd ==
  [][\A frame \in RxFrames :
       LoRaNotification("d1", Base64Encode(frame))
       => /\ \A id \in DOMAIN chunkedMessages :
               ~Names(frame, TagE, id) /\ ~Names(frame, TagS, id)
                 => id \in DOMAIN chunkedMessages'
          /\ StartsWith(frame, TagC) => loraMsg' = loraMsg
          /\ loraMsg' # loraMsg /\ StartsWith(frame, TagE)
               => FrameId(frame) \in DOMAIN chunkedMessages \ DOMAIN chunkedMessages'
    ]_vars

\* A transfer of two chunks has both slots filled, no END yet, and is open with
\* nothing emitted.
C25_Witness ==
  /\ IdA \in DOMAIN chunkedMessages
  /\ chunkedMessages[IdA].totalChunks = 2
  /\ chunkedMessages[IdA].receivedChunks = 2
  /\ chunkedMessages[IdA].chunks = <<Str(<<"q">>), Str(<<"r", ":", "s">>)>>
  /\ loraMsg = <<>>
  /\ orphan = "none"

\* C26: a START frame for an id that already has an open transfer replaces that
\* transfer: every slot empty, the received count 0, the total and the kind those
\* of the new START; the transfers with other ids are unchanged and nothing is
\* emitted.
C26_StartReplaces ==
  [][\A frame \in RxFrames :
       /\ StartsWith(frame, TagS)
       /\ WellFormedFrame(frame)
       /\ FrameId(frame) \in DOMAIN chunkedMessages
       /\ LoRaNotification("d1", Base64Encode(frame))
       => LET id == FrameId(frame)
              total == ParseInt(Split(frame)[3])
          IN /\ DOMAIN chunkedMessages' = DOMAIN chunkedMessages
             /\ chunkedMessages'[id].totalChunks = total
             /\ Len(chunkedMessages'[id].chunks) = total
             /\ \A k \in 1..total : chunkedMessages'[id].chunks[k] = Null
             /\ chunkedMessages'[id].receivedChunks = 0
             /\ chunkedMessages'[id].messageType = Split(frame)[4]
             /\ \A other \in DOMAIN chunkedMessages \ {id} :
                  chunkedMessages'[other] = chunkedMessages[other]
             /\ loraMsg' = loraMsg
    ]_vars

\* The START of a two-chunk transfer of kind f has just been notified for an id
\* that had an open transfer, while another transfer holds a chunk.
C26_Witness ==
  /\ orphan = "S"
  /\ IdA \in DOMAIN chunkedMessages
  /\ chunkedMessages[IdA].messageType = <<"f">>
  /\ chunkedMessages[IdA].chunks = <<Null, Null>>
  /\ chunkedMessages[IdA].receivedChunks = 0
  /\ IdB \in DOMAIN chunkedMessages
  /\ chunkedMessages[IdB].receivedChunks = 1

\* C27: the bookkeeping of reassembly: every open inbound transfer has as many
\* slots as its declared total, its received count is the number of its filled
\* slots, and the count lies between 0 and the total.
C27_Bookkeeping ==
  \A id \in DOMAIN chunkedMessages :
    LET info == chunkedMessages[id]
        filled == {k \in 1..Len(info.chunks) : info.chunks[k] # Null}
    IN /\ Len(info.chunks) = info.totalChunks
       /\ info.receivedChunks = Cardinality(filled)
       /\ 0 <= info.receivedChunks
       /\ info.receivedChunks <= info.totalChunks

\* Two transfers are open, one with the second of its two slots filled, the other
\* full.
C27_Witness ==
  /\ IdA \in DOMAIN chunkedMessages
  /\ chunkedMessages[IdA].chunks = <<Null, Str(<<"r", ":", "s">>)>>
  /\ chunkedMessages[IdA].receivedChunks = 1
  /\ IdB \in DOMAIN chunkedMessages
  /\ chunkedMessages[IdB].chunks = <<Str(<<"w">>)>>
  /\ chunkedMessages[IdB].receivedChunks = 1
  /\ now = 1

\* The texts the chat shows for the messages delivered, the newest first.
RECURSIVE ShownFor(_)
ShownFor(msgs) ==
  IF msgs = <<>> THEN <<>>
  ELSE ShownFor(Tail(msgs)) \o <<processLoRaMessage(Head(msgs))>>

\* C28: no inbound message is lost between the hook and the chat: once the open
\* chat screen has rendered the hook's current loraMsg, it shows every non-blank
\* message delivered while it was open, each exactly once (a repeated text, the
\* first message after a reconnect and messages in quick succession included).
C28_NoInboundLost == Rendered => chat.messages = ShownFor(delivered)

\* C29: on the new-chat screen a configuration request is reported as succeeded
\* or failed, and the chat is added, only on an acknowledgment that arrived after
\* that request was sent; an acknowledgment left over from before the request
\* is never taken as its answer.
C29_AckAnswersItsRequest ==
  (newChat.alert \in {"success", "configError"} \/ newChat.chatId # Null)
    => newChat.fresh

\* C30: the endpoint the chat screen reads from the chat id of a chat the
\* new-chat screen configured is the lower-cased name and MAC address the chat
\* was configured with, so that autoConfigureEndpoint configures the same
\* endpoint.
C30_ChatIdRoundTrip ==
  (chat.open /\ newChat.chatId = Str(chat.id))
    => AutoConfigEndpoint(chat.id) =
         <<ToLowerCase(Trim(newChat.deviceName)), ToLowerCase(Trim(newChat.macAddress))>>

====
